---- MODULE Spec2Model ----
(***************************************************************************)
(* forge: workflow model, validator (internal/dsl/validation.go) and the   *)
(* execution engine (internal/runner/runner.go).                           *)
(*                                                                         *)
(* Seven specifications:                                                   *)
(*   Spec     the Runner: Run and DryRun walking a loaded workflow, one    *)
(*            action per loop iteration of the code (SpecCall: one call    *)
(*            on a new Runner; SpecLive: its steps taken eventually);      *)
(*   SpecV    the validator: Workflow.Validate applied to a workflow drawn *)
(*            from a bounded set of well- and ill-formed workflows, then   *)
(*            Stage.Validate and Step.Validate applied on their own to one *)
(*            of its stages and one of that stage's steps;                 *)
(*   SpecStep Step.Validate applied to every combination of step fields;   *)
(*   SpecX    executeStep applied to a sleep step of 1..MaxSeconds seconds;*)
(*   SpecN    NewRunner applied to a sequence of at most MaxOpts options;  *)
(*   SpecCmd  the run and dry-run commands (runRun, runDryRun) given a     *)
(*            path, a factory and a Runner that succeed or fail;           *)
(*   SpecInit the init command (runWriteTemplate) called at most MaxCalls  *)
(*            times in a directory that holds files or not.                *)
(***************************************************************************)
EXTENDS Integers, Sequences, FiniteSets, TLC

(* ------------------------------ bounds --------------------------------- *)
(* a workflow has at most MaxStages stages and MaxSteps steps altogether;  *)
(* a Runner is called at most MaxCalls times; a sleep step given to        *)
(* executeStep lasts at most MaxSeconds seconds; NewRunner is given at     *)
(* most MaxOpts options                                                    *)
MaxStages == 2
MaxSteps == 2
MaxCalls == 2
MaxSeconds == 100
MaxOpts == 2

(* ------------------------------ errors --------------------------------- *)
(* A Go error is modelled as its chain of layers, outermost first: what    *)
(* fmt.Errorf("...: %w", err) builds.  nil is the empty chain.             *)
Nil == <<>>

Layer(fmt, idx, s1, s2) == [fmt |-> fmt, idx |-> idx, s1 |-> s1, s2 |-> s2]

ErrorsNew(msg) == <<Layer(msg, -1, "", "")>>

Wrap(layer, err) == <<layer>> \o err

(* errors.Is(err, target): target is err or one of the errors it wraps *)
ErrorsIs(err, target) ==
    /\ Len(target) <= Len(err)
    /\ SubSeq(err, Len(err) - Len(target) + 1, Len(err)) = target

(* ------------------------------ data model ----------------------------- *)
StepTypeExec == "exec"
StepTypeSleep == "sleep"

Step(name, type, run, seconds) ==
    [name |-> name, type |-> type, run |-> run, seconds |-> seconds]

Stage(name, steps) == [name |-> name, steps |-> steps]

Workflow(name, stages) == [name |-> name, stages |-> stages]

RECURSIVE Sum(_, _)
Sum(lens, k) == IF k = 0 THEN 0 ELSE lens[k] + Sum(lens, k - 1)

(* the ways to lay n steps out over k stages: the length of each stage *)
Layouts(n, k) == {lens \in [1..k -> 0..n] : Sum(lens, k) = n}

(* the steps of stage i when the steps flat are laid out as lens *)
StageSteps(flat, lens, i) ==
    SubSeq(flat, Sum(lens, i - 1) + 1, Sum(lens, i))

(* ------------------------------ validator ------------------------------ *)
(* StepValidate accepting a sleep of zero seconds *)
StepValidate_ZeroSleep(s) ==
    IF s.name = "" THEN ErrorsNew("step name is required")
    ELSE IF s.type = StepTypeExec
         THEN (IF Len(s.run) = 0
               THEN ErrorsNew("exec step requires 'run' command")
               ELSE Nil)
    ELSE IF s.type = StepTypeSleep
         THEN (IF s.seconds < 0
               THEN ErrorsNew("sleep step requires positive 'seconds' value")
               ELSE Nil)
    ELSE <<Layer("unknown step type: %s", -1, s.type, "")>>

(* Step.Validate without the check of len(s.Run) *)
StepValidate_NoRunCheck(s) ==
    IF s.name = "" THEN ErrorsNew("step name is required")
    ELSE IF s.type = StepTypeExec THEN Nil
    ELSE IF s.type = StepTypeSleep
         THEN (IF s.seconds <= 0
               THEN ErrorsNew("sleep step requires positive 'seconds' value")
               ELSE Nil)
    ELSE <<Layer("unknown step type: %s", -1, s.type, "")>>

(* Step.Validate rejecting a sleep of 0 seconds only *)
StepValidate_EqZero(s) ==
    IF s.name = "" THEN ErrorsNew("step name is required")
    ELSE IF s.type = StepTypeExec
         THEN (IF Len(s.run) = 0
               THEN ErrorsNew("exec step requires 'run' command")
               ELSE Nil)
    ELSE IF s.type = StepTypeSleep
         THEN (IF s.seconds = 0
               THEN ErrorsNew("sleep step requires positive 'seconds' value")
               ELSE Nil)
    ELSE <<Layer("unknown step type: %s", -1, s.type, "")>>

(* Step.Validate letting a step without a type through *)
StepValidate_MissingTypeOk(s) ==
    IF s.name = "" THEN ErrorsNew("step name is required")
    ELSE IF s.type = StepTypeExec
         THEN (IF Len(s.run) = 0
               THEN ErrorsNew("exec step requires 'run' command")
               ELSE Nil)
    ELSE IF s.type = StepTypeSleep
         THEN (IF s.seconds <= 0
               THEN ErrorsNew("sleep step requires positive 'seconds' value")
               ELSE Nil)
    ELSE IF s.type = "" THEN Nil
    ELSE <<Layer("unknown step type: %s", -1, s.type, "")>>

StepValidate(s) ==
    IF s.name = "" THEN ErrorsNew("step name is required")
    ELSE IF s.type = StepTypeExec
         THEN (IF Len(s.run) = 0
               THEN ErrorsNew("exec step requires 'run' command")
               ELSE Nil)
    ELSE IF s.type = StepTypeSleep
         THEN (IF s.seconds <= 0
               THEN ErrorsNew("sleep step requires positive 'seconds' value")
               ELSE Nil)
    ELSE <<Layer("unknown step type: %s", -1, s.type, "")>>

(* the loop of Stage.Validate returning the step's error as it is *)
RECURSIVE StageValidateSteps_NoWrap(_, _)
StageValidateSteps_NoWrap(steps, i) ==
    IF i > Len(steps) THEN Nil
    ELSE LET e == StepValidate(steps[i])
         IN  IF e # Nil THEN e
             ELSE StageValidateSteps_NoWrap(steps, i + 1)

(* the loop of Stage.Validate numbering the steps from 1 in its errors    *)
RECURSIVE StageValidateSteps_OneBased(_, _)
StageValidateSteps_OneBased(steps, i) ==
    IF i > Len(steps) THEN Nil
    ELSE LET e == StepValidate(steps[i])
         IN  IF e # Nil
             THEN Wrap(Layer("step %d (%s): %w", i, steps[i].name, ""), e)
             ELSE StageValidateSteps_OneBased(steps, i + 1)

(* the loop of Stage.Validate from step i (1-based here, 0-based in the    *)
(* error text, as range gives it)                                          *)
RECURSIVE StageValidateSteps(_, _)
StageValidateSteps(steps, i) ==
    IF i > Len(steps) THEN Nil
    ELSE LET e == StepValidate(steps[i])
         IN  IF e # Nil
             THEN Wrap(Layer("step %d (%s): %w", i - 1, steps[i].name, ""), e)
             ELSE StageValidateSteps(steps, i + 1)

(* Stage.Validate without the check of len(s.Steps) *)
StageValidate_NoEmptyCheck(st) ==
    IF st.name = "" THEN ErrorsNew("stage name is required")
    ELSE StageValidateSteps(st.steps, 1)

StageValidate(st) ==
    IF st.name = "" THEN ErrorsNew("stage name is required")
    ELSE IF Len(st.steps) = 0 THEN ErrorsNew("stage must have at least one step")
    ELSE StageValidateSteps(st.steps, 1)

(* the stage loop keeping the last error instead of returning the first *)
RECURSIVE WorkflowValidateStages_Last(_, _)
WorkflowValidateStages_Last(stages, i) ==
    IF i > Len(stages) THEN Nil
    ELSE LET rest == WorkflowValidateStages_Last(stages, i + 1)
             e == StageValidate(stages[i])
         IN  IF rest # Nil THEN rest
             ELSE IF e # Nil
             THEN Wrap(Layer("stage %d (%s): %w", i - 1, stages[i].name, ""), e)
             ELSE Nil

(* the stage loop validating the steps of each stage itself instead of    *)
(* calling Stage.Validate                                                  *)
RECURSIVE WorkflowValidateStages_StepsOnly(_, _)
WorkflowValidateStages_StepsOnly(stages, i) ==
    IF i > Len(stages) THEN Nil
    ELSE LET e == StageValidateSteps(stages[i].steps, 1)
         IN  IF e # Nil
             THEN Wrap(Layer("stage %d (%s): %w", i - 1, stages[i].name, ""), e)
             ELSE WorkflowValidateStages_StepsOnly(stages, i + 1)

RECURSIVE WorkflowValidateStages(_, _)
WorkflowValidateStages(stages, i) ==
    IF i > Len(stages) THEN Nil
    ELSE LET e == StageValidate(stages[i])
         IN  IF e # Nil
             THEN Wrap(Layer("stage %d (%s): %w", i - 1, stages[i].name, ""), e)
             ELSE WorkflowValidateStages(stages, i + 1)

(* Workflow.Validate looking at the stages before the name *)
Validate_StagesFirst(w) ==
    IF Len(w.stages) = 0 THEN ErrorsNew("workflow must have at least one stage")
    ELSE LET e == WorkflowValidateStages(w.stages, 1)
         IN  IF e # Nil THEN e
             ELSE IF w.name = "" THEN ErrorsNew("workflow name is required")
             ELSE Nil

Validate(w) ==
    IF w.name = "" THEN ErrorsNew("workflow name is required")
    ELSE IF Len(w.stages) = 0 THEN ErrorsNew("workflow must have at least one stage")
    ELSE WorkflowValidateStages(w.stages, 1)

(* ------------------------------ runner state --------------------------- *)
VARIABLES
    doc,        \* what the loader finds at r.path: [readable, wf]; it may
                \* be replaced between two calls on the Runner
    loader,     \* the LoadWorkflow collaborator bound to the Runner
    ncalls,     \* number of Run/DryRun calls started on this Runner
    mode,       \* entry point being executed: "none", "Run", "DryRun"
    pc,         \* position in the entry point
    wf,         \* local wf of Run/DryRun
    stageIdx,   \* range index of the outer loop (0-based)
    stepIdx,    \* range index of the inner loop (0-based)
    out,        \* lines written to r.Out by the current call
    calls,      \* RunCmd/Sleep invocations of the current call that returned
    inflight,   \* RunCmd/Sleep invocations in progress (called, not returned)
    loads,      \* LoadWorkflow invocations made by the current call
    err,        \* value returned by the current call (Nil until it fails)
    prev,       \* mode, out, calls, err, doc of the previous call on this
                \* Runner
    vwf,        \* validator: the workflow under validation
    vpc,        \* validator: "idle", "input", "validated", "stepInput",
                \* "stage" or "step"
    vres,       \* validator: the error Workflow.Validate returned
    vst,        \* validator: the call of Stage.Validate: [i, stage, res]
    vsp,        \* validator: the call of Step.Validate: [j, step, res]
    xstep,      \* executeStep called directly: the step it is given
    xpc,        \* executeStep called directly: "idle", "input", "done"
    xres,       \* executeStep called directly: its effects and its error
    nopts,      \* NewRunner: the options it is given
    nidx,       \* NewRunner: number of options applied so far
    nr,         \* NewRunner: the Runner under construction
    npc,        \* NewRunner: "idle", "input", "options", "returned"
    nret,       \* NewRunner: what it returned: [r, err]
    cin,        \* command: its name, the path argument, what os.Stat finds,
                \* what the factory returns and what Run/DryRun returns
    cpc,        \* command: "idle", "input", "factory", "exec", "returned"
    ctrace,     \* command: the calls made to the factory and the Runner
    cret,       \* command: the error runRun/runDryRun returned
    files,      \* init: the content of each file of the working directory
    dir,        \* init: what the process may do in the working directory
    ilog        \* init: the calls of runWriteTemplate made so far, each
                \* [fileName, before, ret]

vars == <<doc, loader, ncalls, mode, pc, wf, stageIdx, stepIdx, out, calls,
          inflight, loads, err, prev, vwf, vpc, vres, vst, vsp, xstep, xpc, xres,
          nopts, nidx, nr, npc, nret, cin, cpc, ctrace, cret, files, dir, ilog>>

runnerVars == <<doc, loader, ncalls, mode, pc, wf, stageIdx, stepIdx, out,
                calls, inflight, loads, err, prev>>

validatorVars == <<vwf, vpc, vres, vst, vsp>>

execVars == <<xstep, xpc, xres>>

ctorVars == <<nopts, nidx, nr, npc, nret>>

cmdVars == <<cin, cpc, ctrace, cret>>

initVars == <<files, dir, ilog>>

Path == "workflow.yaml"

Second == 1000000000

(* time.Duration is a signed machine word and its arithmetic wraps. Go's   *)
(* word has 64 bits; the integers of this model have 32, and so has its    *)
(* Duration: a product wraps modulo 2^32 here as it wraps modulo 2^64 in   *)
(* Go.                                                                     *)
MaxDuration == 2147483647

MinDuration == -MaxDuration - 1

(* x + y in the machine word, x and y in the word *)
AddWrap(x, y) ==
    IF x >= 0 /\ y >= 0 /\ x > MaxDuration - y
    THEN ((x - MaxDuration) - 1) + ((y - MaxDuration) - 1)
    ELSE IF x < 0 /\ y < 0 /\ x < MinDuration - y
    THEN ((x + MaxDuration) + 1) + ((y + MaxDuration) + 1)
    ELSE x + y

(* n * d in the machine word, n >= 0 *)
RECURSIVE MulWrap(_, _)
MulWrap(n, d) ==
    IF n = 0 THEN 0
    ELSE LET h == MulWrap(n \div 2, d)
         IN  IF n % 2 = 0 THEN AddWrap(h, h) ELSE AddWrap(AddWrap(h, h), d)

(* time.Duration(seconds) * time.Second *)
Duration(seconds) ==
    IF seconds >= 0 THEN MulWrap(seconds, Second)
    ELSE MulWrap(-seconds, -Second)

NoWorkflow == Workflow("<nil>", <<>>)

(* one line of r.Out; the fields a line does not print are left empty *)
Line(kind, dry, i, j, name, typ, run, secs) ==
    [kind |-> kind, dry |-> dry, i |-> i, j |-> j, name |-> name,
     typ |-> typ, run |-> run, secs |-> secs]

(* one capability invocation and what it returned (Sleep returns nothing) *)
Call(cap, argv, d, res) == [cap |-> cap, argv |-> argv, d |-> d, res |-> res]

(* a capability invocation that has not returned yet *)
Invocation(cap, argv, d) == [cap |-> cap, argv |-> argv, d |-> d]

(* one invocation of r.LoadWorkflow: the path it is given, and how many    *)
(* lines were written and capabilities invoked before it                   *)
LoadCall(path, nlines, ncaps) ==
    [path |-> path, nlines |-> nlines, ncaps |-> ncaps]

(* what an invocation of RunCmd can return: nil, or the error of a         *)
(* non-zero exit, of a failed spawn, of the 10 minute deadline             *)
CmdErrors ==
    { ErrorsNew("exit status 1"),
      Wrap(Layer("exec: %q: %w", -1, "go", ""),
           ErrorsNew("executable file not found in $PATH")),
      ErrorsNew("signal: killed") }

CmdResults == {Nil} \cup CmdErrors

(* ------------------------------ loaders -------------------------------- *)
LoadFailed == ErrorsNew("failed to load workflow")

(* dsl.LoadWorkflowFromFile: read, decode, then Validate *)
LoadWorkflowFromFile(d) ==
    IF ~d.readable THEN [wf |-> NoWorkflow, err |-> ErrorsNew("read or decode failed")]
    ELSE LET e == Validate(d.wf)
         IN  IF e # Nil THEN [wf |-> NoWorkflow, err |-> e]
             ELSE [wf |-> d.wf, err |-> Nil]

(* the loaders injected with WithLoadWorkflow: they return the workflow    *)
(* they were built with, unvalidated, or the error they were built with    *)
mockLoadWorkflow(d) ==
    IF ~d.readable THEN [wf |-> NoWorkflow, err |-> LoadFailed]
    ELSE [wf |-> d.wf, err |-> Nil]

LoadWorkflow(ld, d) ==
    IF ld = "LoadWorkflowFromFile" THEN LoadWorkflowFromFile(d)
    ELSE mockLoadWorkflow(d)

(* ------------------------------ executeStep ---------------------------- *)
(* effects and result of r.executeStep(step) when RunCmd, if invoked,      *)
(* returns res                                                             *)
(* executeStep whose sleep case prints the notice but never calls r.Sleep *)
executeStep_NoSleep(step, res) ==
    IF step.type = StepTypeExec
    THEN [calls |-> <<Call("RunCmd", step.run, 0, res)>>,
          out   |-> <<>>,
          err   |-> IF res # Nil
                    THEN Wrap(Layer("command execution failed: %w", -1, "", ""), res)
                    ELSE Nil]
    ELSE IF step.type = StepTypeSleep
    THEN [calls |-> <<>>,
          out   |-> <<Line("sleeping", FALSE, -1, -1, "", "", <<>>, step.seconds)>>,
          err   |-> Nil]
    ELSE [calls |-> <<>>,
          out   |-> <<>>,
          err   |-> <<Layer("unknown step type: %s", -1, step.type, "")>>]

(* executeStep without the default case: an unknown type is a no-op *)
executeStep_NoDefault(step, res) ==
    IF step.type = StepTypeExec
    THEN [calls |-> <<Call("RunCmd", step.run, 0, res)>>,
          out   |-> <<>>,
          err   |-> IF res # Nil
                    THEN Wrap(Layer("command execution failed: %w", -1, "", ""), res)
                    ELSE Nil]
    ELSE IF step.type = StepTypeSleep
    THEN [calls |-> <<Call("Sleep", <<>>, step.seconds * Second, Nil)>>,
          out   |-> <<Line("sleeping", FALSE, -1, -1, "", "", <<>>, step.seconds)>>,
          err   |-> Nil]
    ELSE [calls |-> <<>>, out |-> <<>>, err |-> Nil]

(* executeStep formatting the cause of a failed command with %v: the      *)
(* message is kept, the error value is not wrapped                         *)
executeStep_CauseAsText(step, res) ==
    IF step.type = StepTypeExec
    THEN [calls |-> <<Call("RunCmd", step.run, 0, res)>>,
          out   |-> <<>>,
          events |-> <<"call">>,
          err   |-> IF res # Nil
                    THEN <<Layer("command execution failed: %v", -1,
                                 res[1].fmt, "")>>
                    ELSE Nil]
    ELSE IF step.type = StepTypeSleep
    THEN [calls |-> <<Call("Sleep", <<>>, Duration(step.seconds), Nil)>>,
          out   |-> <<Line("sleeping", FALSE, -1, -1, "", "", <<>>, step.seconds)>>,
          events |-> <<"out", "call">>,
          err   |-> Nil]
    ELSE [calls |-> <<>>,
          out   |-> <<>>,
          events |-> <<>>,
          err   |-> <<Layer("unknown step type: %s", -1, step.type, "")>>]

(* executeStep whose sleep case reports an interrupted delay as an error  *)
executeStep_SleepInterrupted(step, res) ==
    IF step.type = StepTypeExec
    THEN [calls |-> <<Call("RunCmd", step.run, 0, res)>>,
          out   |-> <<>>,
          events |-> <<"call">>,
          err   |-> IF res # Nil
                    THEN Wrap(Layer("command execution failed: %w", -1, "", ""), res)
                    ELSE Nil]
    ELSE IF step.type = StepTypeSleep
    THEN [calls |-> <<Call("Sleep", <<>>, Duration(step.seconds), Nil)>>,
          out   |-> <<Line("sleeping", FALSE, -1, -1, "", "", <<>>, step.seconds)>>,
          events |-> <<"out", "call">>,
          err   |-> ErrorsNew("sleep interrupted")]
    ELSE [calls |-> <<>>,
          out   |-> <<>>,
          events |-> <<>>,
          err   |-> <<Layer("unknown step type: %s", -1, step.type, "")>>]

executeStep(step, res) ==
    IF step.type = StepTypeExec
    THEN [calls |-> <<Call("RunCmd", step.run, 0, res)>>,
          out   |-> <<>>,
          events |-> <<"call">>,
          err   |-> IF res # Nil
                    THEN Wrap(Layer("command execution failed: %w", -1, "", ""), res)
                    ELSE Nil]
    ELSE IF step.type = StepTypeSleep
    THEN [calls |-> <<Call("Sleep", <<>>, Duration(step.seconds), Nil)>>,
          out   |-> <<Line("sleeping", FALSE, -1, -1, "", "", <<>>, step.seconds)>>,
          events |-> <<"out", "call">>,
          err   |-> Nil]
    ELSE [calls |-> <<>>,
          out   |-> <<>>,
          events |-> <<>>,
          err   |-> <<Layer("unknown step type: %s", -1, step.type, "")>>]

(* DryRun's switch with a default case printing that the step is skipped *)
dryRunStep_WithDefault(step) ==
    IF step.type = StepTypeExec
    THEN <<Line("wouldExec", TRUE, -1, -1, "", "", step.run, 0)>>
    ELSE IF step.type = StepTypeSleep
    THEN <<Line("wouldSleep", TRUE, -1, -1, "", "", <<>>, step.seconds)>>
    ELSE <<Line("wouldSkip", TRUE, -1, -1, "", step.type, <<>>, 0)>>

(* DryRun's switch without the sleep case *)
dryRunStep_ExecOnly(step) ==
    IF step.type = StepTypeExec
    THEN <<Line("wouldExec", TRUE, -1, -1, "", "", step.run, 0)>>
    ELSE <<>>

(* what DryRun prints for a step after its step marker *)
dryRunStep(step) ==
    IF step.type = StepTypeExec
    THEN <<Line("wouldExec", TRUE, -1, -1, "", "", step.run, 0)>>
    ELSE IF step.type = StepTypeSleep
    THEN <<Line("wouldSleep", TRUE, -1, -1, "", "", <<>>, step.seconds)>>
    ELSE <<>>

(* ------------------------------ inputs --------------------------------- *)
RunnerSteps ==
    { Step("compile", StepTypeExec, <<"go", "build">>, 0),
      Step("run-tests", StepTypeExec, <<"go", "test">>, 0),
      Step("wait", StepTypeSleep, <<>>, 2),
      Step("norun", StepTypeExec, <<>>, 0),
      Step("mystery", "unknown", <<>>, 0) }

StageNames == <<"build", "test", "deploy", "release">>

RunnerWorkflow(flat, lens) ==
    Workflow("mock-workflow",
             [i \in 1..Len(lens) |->
                Stage(StageNames[i], StageSteps(flat, lens, i))])

Unreadable == [readable |-> FALSE, wf |-> NoWorkflow]

NoCall ==
    [mode |-> "none", out |-> <<>>, calls |-> <<>>, err |-> Nil,
     doc |-> Unreadable]

(* what the document at r.path is replaced by between two calls: a         *)
(* readable one is removed, an unreadable one is written anew              *)
Rewritten ==
    [readable |-> TRUE,
     wf |-> RunnerWorkflow(<<Step("compile", StepTypeExec, <<"go", "build">>, 0)>>,
                           <<1>>)]

Replaced(d) == IF d.readable THEN Unreadable ELSE Rewritten

NoStage == Stage("<nil>", <<>>)

NoStep == Step("<nil>", "", <<>>, 0)

NoStageCall == [i |-> 0, stage |-> NoStage, res |-> Nil]

NoStepCall == [j |-> 0, step |-> NoStep, res |-> Nil]

NoEffects == [calls |-> <<>>, out |-> <<>>, events |-> <<>>, err |-> Nil]

ValidatorIdle ==
    /\ vwf = NoWorkflow
    /\ vpc = "idle"
    /\ vres = Nil
    /\ vst = NoStageCall
    /\ vsp = NoStepCall

ExecIdle ==
    /\ xstep = NoStep
    /\ xpc = "idle"
    /\ xres = NoEffects

(* a *Runner: nil, or a reference to a Runner value *)
NilRunner == <<>>

Ref(r) == <<r>>

NoReturn == [r |-> NilRunner, err |-> Nil]

CtorIdle ==
    /\ nopts = <<>>
    /\ nidx = 0
    /\ nr = NilRunner
    /\ npc = "idle"
    /\ nret = NoReturn

defaultFileName == "workflow.yaml"

FileNames == {defaultFileName, "custom-workflow.yml"}

Absent == "<absent>"

InitIdle ==
    /\ files = [f \in FileNames |-> Absent]
    /\ dir = "writable"
    /\ ilog = <<>>

NoCommand ==
    [cmd |-> "none", path |-> "", stat |-> "notExist", factory |-> Nil,
     exec |-> Nil]

CmdIdle ==
    /\ cin = NoCommand
    /\ cpc = "idle"
    /\ ctrace = <<>>
    /\ cret = Nil

Init ==
    /\ \/ doc = Unreadable
       \/ \E n \in 0..MaxSteps, k \in 0..MaxStages :
            \E flat \in [1..n -> RunnerSteps], lens \in Layouts(n, k) :
              doc = [readable |-> TRUE, wf |-> RunnerWorkflow(flat, lens)]
    /\ loader \in {"LoadWorkflowFromFile", "mock"}
    /\ ncalls = 0
    /\ mode = "none"
    /\ pc = "idle"
    /\ wf = NoWorkflow
    /\ stageIdx = 0
    /\ stepIdx = 0
    /\ out = <<>>
    /\ calls = <<>>
    /\ inflight = <<>>
    /\ loads = <<>>
    /\ err = Nil
    /\ prev = NoCall
    /\ ValidatorIdle
    /\ ExecIdle
    /\ CtorIdle
    /\ CmdIdle
    /\ InitIdle

(* ------------------------------ Run / DryRun --------------------------- *)
(* entry of Run or DryRun on a Runner that keeps the workflow of its      *)
(* previous call and loads only when it has none                           *)
Enter_KeepsWorkflow(m) ==
    /\ pc \in {"idle", "returned"}
    /\ ncalls < MaxCalls
    /\ ncalls' = ncalls + 1
    /\ \E d \in (IF pc = "returned" THEN {doc, Replaced(doc)} ELSE {doc}) :
         doc' = d
    /\ prev' = [mode |-> mode, out |-> out, calls |-> calls, err |-> err,
                doc |-> doc]
    /\ mode' = m
    /\ out' = <<Line("start", m = "DryRun", -1, -1, Path, "", <<>>, 0)>>
    /\ calls' = <<>>
    /\ inflight' = <<>>
    /\ loads' = <<>>
    /\ err' = Nil
    /\ stageIdx' = 0
    /\ stepIdx' = 0
    /\ pc' = (IF wf # NoWorkflow THEN "stage" ELSE "load")
    /\ UNCHANGED <<wf, loader, validatorVars, execVars, ctorVars, cmdVars, initVars>>

(* entry of Run or DryRun: the start marker. Between the previous call and *)
(* this one the document at r.path may have been replaced.                 *)
Enter(m) ==
    /\ pc \in {"idle", "returned"}
    /\ ncalls < MaxCalls
    /\ ncalls' = ncalls + 1
    /\ \E d \in (IF pc = "returned" THEN {doc, Replaced(doc)} ELSE {doc}) :
         doc' = d
    /\ prev' = [mode |-> mode, out |-> out, calls |-> calls, err |-> err,
                doc |-> doc]
    /\ mode' = m
    /\ out' = <<Line("start", m = "DryRun", -1, -1, Path, "", <<>>, 0)>>
    /\ calls' = <<>>
    /\ inflight' = <<>>
    /\ loads' = <<>>
    /\ err' = Nil
    /\ wf' = NoWorkflow
    /\ stageIdx' = 0
    /\ stepIdx' = 0
    /\ pc' = "load"
    /\ UNCHANGED <<loader, validatorVars, execVars, ctorVars, cmdVars, initVars>>

Run_Enter == Enter("Run")

DryRun_Enter == Enter("DryRun")

(* Load without the error check: the loop runs on whatever was decoded     *)
Load_IgnoreErr ==
    /\ pc = "load"
    /\ loads' = Append(loads, LoadCall(Path, Len(out), Len(calls)))
    /\ wf' = (IF doc.readable THEN doc.wf ELSE NoWorkflow)
    /\ pc' = "stage"
    /\ UNCHANGED <<doc, loader, ncalls, mode, stageIdx, stepIdx, out, calls,
                   err, prev, inflight, validatorVars, execVars, ctorVars, cmdVars, initVars>>

(* Load returning the loader's error wrapped in a message of its own       *)
Load_WrapErr ==
    /\ pc = "load"
    /\ loads' = Append(loads, LoadCall(Path, Len(out), Len(calls)))
    /\ LET r == LoadWorkflow(loader, doc)
       IN  IF r.err # Nil
           THEN /\ err' = Wrap(Layer("load workflow: %w", -1, "", ""), r.err)
                /\ pc' = "returned"
                /\ UNCHANGED wf
           ELSE /\ wf' = r.wf
                /\ pc' = "stage"
                /\ UNCHANGED err
    /\ UNCHANGED <<doc, loader, ncalls, mode, stageIdx, stepIdx, out, calls,
                   prev, inflight, validatorVars, execVars, ctorVars, cmdVars, initVars>>

(* Load recording the loader's error without returning: the loops run on  *)
(* the nil workflow and the completion marker is written                   *)
Load_NoReturn ==
    /\ pc = "load"
    /\ loads' = Append(loads, LoadCall(Path, Len(out), Len(calls)))
    /\ LET r == LoadWorkflow(loader, doc)
       IN  /\ err' = r.err
           /\ wf' = r.wf
           /\ pc' = "stage"
    /\ UNCHANGED <<doc, loader, ncalls, mode, stageIdx, stepIdx, out, calls,
                   prev, inflight, validatorVars, execVars, ctorVars, cmdVars, initVars>>

(* wf, err := r.LoadWorkflow(r.path); if err != nil { return err }         *)
(* Load refusing a workflow without stages, as Validate does              *)
Load_RejectEmpty ==
    /\ pc = "load"
    /\ loads' = Append(loads, LoadCall(Path, Len(out), Len(calls)))
    /\ LET r == LoadWorkflow(loader, doc)
       IN  IF r.err # Nil
           THEN /\ err' = r.err
                /\ pc' = "returned"
                /\ UNCHANGED wf
           ELSE IF Len(r.wf.stages) = 0
           THEN /\ err' = ErrorsNew("workflow must have at least one stage")
                /\ wf' = r.wf
                /\ pc' = "returned"
           ELSE /\ wf' = r.wf
                /\ pc' = "stage"
                /\ UNCHANGED err
    /\ UNCHANGED <<doc, loader, ncalls, mode, stageIdx, stepIdx, out, calls,
                   prev, inflight, validatorVars, execVars, ctorVars, cmdVars, initVars>>

Load ==
    /\ pc = "load"
    /\ loads' = Append(loads, LoadCall(Path, Len(out), Len(calls)))
    /\ LET r == LoadWorkflow(loader, doc)
       IN  IF r.err # Nil
           THEN /\ err' = r.err
                /\ pc' = "returned"
                /\ UNCHANGED wf
           ELSE /\ wf' = r.wf
                /\ pc' = "stage"
                /\ UNCHANGED err
    /\ UNCHANGED <<doc, loader, ncalls, mode, stageIdx, stepIdx, out, calls,
                   prev, inflight, validatorVars, execVars, ctorVars, cmdVars, initVars>>

(* the stage-start marker numbering the stages across the calls made on   *)
(* the Runner instead of within the call                                   *)
StageStart_NumbersAcrossCalls ==
    /\ pc = "stage"
    /\ stageIdx < Len(wf.stages)
    /\ out' = Append(out, Line("stage", mode = "DryRun", stageIdx + ncalls, -1,
                               wf.stages[stageIdx + 1].name, "", <<>>, 0))
    /\ stepIdx' = 0
    /\ pc' = "step"
    /\ UNCHANGED <<doc, loader, ncalls, mode, wf, stageIdx, calls, err, prev,
                   inflight, loads, validatorVars, execVars, ctorVars, cmdVars, initVars>>

(* the stage-start marker printing the range index i instead of i+1       *)
StageStart_ZeroBased ==
    /\ pc = "stage"
    /\ stageIdx < Len(wf.stages)
    /\ out' = Append(out, Line("stage", mode = "DryRun", stageIdx, -1,
                               wf.stages[stageIdx + 1].name, "", <<>>, 0))
    /\ stepIdx' = 0
    /\ pc' = "step"
    /\ UNCHANGED <<doc, loader, ncalls, mode, wf, stageIdx, calls, err, prev,
                   inflight, loads, validatorVars, execVars, ctorVars, cmdVars, initVars>>

(* head of the outer loop with a stage left: the stage-start marker        *)
StageStart ==
    /\ pc = "stage"
    /\ stageIdx < Len(wf.stages)
    /\ out' = Append(out, Line("stage", mode = "DryRun", stageIdx + 1, -1,
                               wf.stages[stageIdx + 1].name, "", <<>>, 0))
    /\ stepIdx' = 0
    /\ pc' = "step"
    /\ UNCHANGED <<doc, loader, ncalls, mode, wf, stageIdx, calls, err, prev,
                   inflight, loads, validatorVars, execVars, ctorVars, cmdVars, initVars>>

(* the capability is the default runCommand and its argv is empty:         *)
(* evaluating argv[0] panics with an index out of range, the invocation    *)
(* and Run are unwound and Run never returns                               *)
Run_Panic ==
    /\ pc = "invoking"
    /\ Head(inflight).cap = "RunCmd"
    /\ Head(inflight).argv = <<>>
    /\ inflight' = Tail(inflight)
    /\ pc' = "panicked"
    /\ UNCHANGED <<doc, loader, ncalls, mode, wf, stageIdx, stepIdx, out,
                   calls, loads, err, prev, validatorVars, execVars, ctorVars, cmdVars, initVars>>

(* Run's inner loop starting the capability of a step and going on to the *)
(* next step without waiting for it to return                              *)
Run_Step_NoWait ==
    /\ pc = "step"
    /\ mode = "Run"
    /\ stepIdx < Len(wf.stages[stageIdx + 1].steps)
    /\ LET stage == wf.stages[stageIdx + 1]
           step == stage.steps[stepIdx + 1]
           marker == Line("step", FALSE, stageIdx + 1, stepIdx + 1, step.name,
                          step.type, <<>>, 0)
           x == executeStep(step, Nil)
       IN  /\ out' = (out \o <<marker>>) \o x.out
           /\ IF x.calls # <<>>
              THEN /\ inflight' = Append(inflight,
                                          Invocation(x.calls[1].cap,
                                                     x.calls[1].argv,
                                                     x.calls[1].d))
                   /\ stepIdx' = stepIdx + 1
                   /\ UNCHANGED <<err, pc>>
              ELSE IF x.err # Nil
              THEN /\ err' = Wrap(Layer("stage '%s', step '%s': %w", -1,
                                        stage.name, step.name), x.err)
                   /\ pc' = "returned"
                   /\ UNCHANGED <<inflight, stepIdx>>
              ELSE /\ stepIdx' = stepIdx + 1
                   /\ UNCHANGED <<inflight, err, pc>>
    /\ UNCHANGED <<doc, loader, ncalls, mode, wf, stageIdx, calls, loads, prev,
                   validatorVars, execVars, ctorVars, cmdVars, initVars>>

(* one iteration of Run's inner loop up to the capability: step marker,    *)
(* then executeStep as far as its call of r.RunCmd or r.Sleep (the sleep   *)
(* notice is written before the call), or through its default case         *)
Run_Step ==
    /\ pc = "step"
    /\ mode = "Run"
    /\ stepIdx < Len(wf.stages[stageIdx + 1].steps)
    /\ LET stage == wf.stages[stageIdx + 1]
           step == stage.steps[stepIdx + 1]
           marker == Line("step", FALSE, stageIdx + 1, stepIdx + 1, step.name,
                          step.type, <<>>, 0)
           x == executeStep(step, Nil)
       IN  /\ out' = (out \o <<marker>>) \o x.out
           /\ IF x.calls # <<>>
              THEN /\ inflight' = Append(inflight,
                                          Invocation(x.calls[1].cap,
                                                     x.calls[1].argv,
                                                     x.calls[1].d))
                   /\ pc' = "invoking"
                   /\ UNCHANGED <<err, stepIdx>>
              ELSE IF x.err # Nil
              THEN /\ err' = Wrap(Layer("stage '%s', step '%s': %w", -1,
                                        stage.name, step.name), x.err)
                   /\ pc' = "returned"
                   /\ UNCHANGED <<inflight, stepIdx>>
              ELSE /\ stepIdx' = stepIdx + 1
                   /\ UNCHANGED <<inflight, err, pc>>
    /\ UNCHANGED <<doc, loader, ncalls, mode, wf, stageIdx, calls, loads, prev,
                   validatorVars, execVars, ctorVars, cmdVars, initVars>>

(* the capability returning with an error that is recorded while the loop  *)
(* goes on                                                                 *)
Run_Return_NoAbort ==
    /\ pc = "invoking"
    /\ LET stage == wf.stages[stageIdx + 1]
           step == stage.steps[stepIdx + 1]
       IN  \E res \in (IF Head(inflight).cap = "RunCmd" THEN CmdResults
                       ELSE {Nil}) :
             LET x == executeStep(step, res)
             IN  /\ calls' = calls \o x.calls
                 /\ inflight' = Tail(inflight)
                 /\ err' = (IF x.err # Nil /\ err = Nil
                            THEN Wrap(Layer("stage '%s', step '%s': %w", -1,
                                            stage.name, step.name), x.err)
                            ELSE err)
                 /\ stepIdx' = stepIdx + 1
                 /\ pc' = "step"
    /\ UNCHANGED <<doc, loader, ncalls, mode, wf, stageIdx, out, loads, prev,
                   validatorVars, execVars, ctorVars, cmdVars, initVars>>

(* the capability returns: the rest of executeStep and of the iteration    *)
(* an invocation of Sleep that never returns                              *)
Run_Return_SleepHangs ==
    /\ pc = "invoking"
    /\ Head(inflight).cap = "RunCmd"
    /\ LET stage == wf.stages[stageIdx + 1]
           step == stage.steps[stepIdx + 1]
       IN  \E res \in CmdResults :
             LET x == executeStep(step, res)
             IN  /\ calls' = calls \o x.calls
                 /\ inflight' = Tail(inflight)
                 /\ IF x.err # Nil
                    THEN /\ err' = Wrap(Layer("stage '%s', step '%s': %w", -1,
                                              stage.name, step.name), x.err)
                         /\ pc' = "returned"
                         /\ UNCHANGED stepIdx
                    ELSE /\ stepIdx' = stepIdx + 1
                         /\ pc' = "step"
                         /\ UNCHANGED err
    /\ UNCHANGED <<doc, loader, ncalls, mode, wf, stageIdx, out, loads, prev,
                   validatorVars, execVars, ctorVars, cmdVars, initVars>>

(* the return of an invocation closing the stage of a failed step with a  *)
(* stage-completed marker                                                  *)
Run_Return_ClosesStage ==
    /\ pc = "invoking"
    /\ LET stage == wf.stages[stageIdx + 1]
           step == stage.steps[stepIdx + 1]
       IN  \E res \in (IF Head(inflight).cap = "RunCmd" THEN CmdResults
                       ELSE {Nil}) :
             LET x == executeStep(step, res)
             IN  /\ calls' = calls \o x.calls
                 /\ inflight' = Tail(inflight)
                 /\ IF x.err # Nil
                    THEN /\ err' = Wrap(Layer("stage '%s', step '%s': %w", -1,
                                              stage.name, step.name), x.err)
                         /\ out' = Append(out, Line("stageCompleted", FALSE,
                                                    stageIdx + 1, -1, "", "",
                                                    <<>>, 0))
                         /\ pc' = "returned"
                         /\ UNCHANGED stepIdx
                    ELSE /\ stepIdx' = stepIdx + 1
                         /\ pc' = "step"
                         /\ UNCHANGED <<err, out>>
    /\ UNCHANGED <<doc, loader, ncalls, mode, wf, stageIdx, loads, prev,
                   validatorVars, execVars, ctorVars, cmdVars, initVars>>

Run_Return ==
    /\ pc = "invoking"
    /\ LET stage == wf.stages[stageIdx + 1]
           step == stage.steps[stepIdx + 1]
       IN  \E res \in (IF Head(inflight).cap = "RunCmd" THEN CmdResults
                       ELSE {Nil}) :
             LET x == executeStep(step, res)
             IN  /\ calls' = calls \o x.calls
                 /\ inflight' = Tail(inflight)
                 /\ IF x.err # Nil
                    THEN /\ err' = Wrap(Layer("stage '%s', step '%s': %w", -1,
                                              stage.name, step.name), x.err)
                         /\ pc' = "returned"
                         /\ UNCHANGED stepIdx
                    ELSE /\ stepIdx' = stepIdx + 1
                         /\ pc' = "step"
                         /\ UNCHANGED err
    /\ UNCHANGED <<doc, loader, ncalls, mode, wf, stageIdx, out, loads, prev,
                   validatorVars, execVars, ctorVars, cmdVars, initVars>>

(* DryRun's inner loop running the command of an exec step for real       *)
DryRun_Step_Invokes ==
    /\ pc = "step"
    /\ mode = "DryRun"
    /\ stepIdx < Len(wf.stages[stageIdx + 1].steps)
    /\ LET step == wf.stages[stageIdx + 1].steps[stepIdx + 1]
           marker == Line("step", TRUE, stageIdx + 1, stepIdx + 1, step.name,
                          step.type, <<>>, 0)
       IN  /\ out' = (out \o <<marker>>) \o dryRunStep(step)
           /\ calls' = (IF step.type = StepTypeExec
                        THEN Append(calls, Call("RunCmd", step.run, 0, Nil))
                        ELSE calls)
    /\ stepIdx' = stepIdx + 1
    /\ UNCHANGED <<doc, loader, ncalls, mode, pc, wf, stageIdx, err, prev,
                   inflight, loads, validatorVars, execVars, ctorVars, cmdVars, initVars>>

(* DryRun's inner loop passing over sleep steps without a word             *)
DryRun_Step_SkipsSleep ==
    /\ pc = "step"
    /\ mode = "DryRun"
    /\ stepIdx < Len(wf.stages[stageIdx + 1].steps)
    /\ LET step == wf.stages[stageIdx + 1].steps[stepIdx + 1]
           marker == Line("step", TRUE, stageIdx + 1, stepIdx + 1, step.name,
                          step.type, <<>>, 0)
       IN  out' = (IF step.type = StepTypeSleep THEN out
                   ELSE (out \o <<marker>>) \o dryRunStep(step))
    /\ stepIdx' = stepIdx + 1
    /\ UNCHANGED <<doc, loader, ncalls, mode, pc, wf, stageIdx, calls, err,
                   prev, inflight, loads, validatorVars, execVars, ctorVars, cmdVars, initVars>>

(* DryRun's inner loop with a default case failing on an unknown type      *)
DryRun_Step_FailsUnknown ==
    /\ pc = "step"
    /\ mode = "DryRun"
    /\ stepIdx < Len(wf.stages[stageIdx + 1].steps)
    /\ LET stage == wf.stages[stageIdx + 1]
           step == stage.steps[stepIdx + 1]
           marker == Line("step", TRUE, stageIdx + 1, stepIdx + 1, step.name,
                          step.type, <<>>, 0)
       IN  /\ out' = (out \o <<marker>>) \o dryRunStep(step)
           /\ IF step.type \in {StepTypeExec, StepTypeSleep}
              THEN /\ stepIdx' = stepIdx + 1
                   /\ UNCHANGED <<err, pc>>
              ELSE /\ err' = Wrap(Layer("stage '%s', step '%s': %w", -1,
                                        stage.name, step.name),
                                  <<Layer("unknown step type: %s", -1, step.type, "")>>)
                   /\ pc' = "returned"
                   /\ UNCHANGED stepIdx
    /\ UNCHANGED <<doc, loader, ncalls, mode, wf, stageIdx, calls, prev,
                   inflight, loads, validatorVars, execVars, ctorVars, cmdVars, initVars>>

(* one iteration of DryRun's inner loop: step marker, then the switch      *)
DryRun_Step ==
    /\ pc = "step"
    /\ mode = "DryRun"
    /\ stepIdx < Len(wf.stages[stageIdx + 1].steps)
    /\ LET step == wf.stages[stageIdx + 1].steps[stepIdx + 1]
           marker == Line("step", TRUE, stageIdx + 1, stepIdx + 1, step.name,
                          step.type, <<>>, 0)
       IN  out' = (out \o <<marker>>) \o dryRunStep(step)
    /\ stepIdx' = stepIdx + 1
    /\ UNCHANGED <<doc, loader, ncalls, mode, pc, wf, stageIdx, calls, err,
                   prev, inflight, loads, validatorVars, execVars, ctorVars, cmdVars, initVars>>

(* the end of a stage releasing the steps of the stage it has run         *)
StageCompleted_DropsSteps ==
    /\ pc = "step"
    /\ stepIdx = Len(wf.stages[stageIdx + 1].steps)
    /\ out' = Append(out, Line("stageCompleted", mode = "DryRun", stageIdx + 1,
                               -1, "", "", <<>>, 0))
    /\ wf' = [wf EXCEPT !.stages[stageIdx + 1].steps = <<>>]
    /\ stageIdx' = stageIdx + 1
    /\ pc' = "stage"
    /\ UNCHANGED <<doc, loader, ncalls, mode, stepIdx, calls, err, prev,
                   inflight, loads, validatorVars, execVars, ctorVars, cmdVars, initVars>>

(* inner loop exhausted: the stage-completed marker, next stage            *)
StageCompleted ==
    /\ pc = "step"
    /\ stepIdx = Len(wf.stages[stageIdx + 1].steps)
    /\ out' = Append(out, Line("stageCompleted", mode = "DryRun", stageIdx + 1,
                               -1, "", "", <<>>, 0))
    /\ stageIdx' = stageIdx + 1
    /\ pc' = "stage"
    /\ UNCHANGED <<doc, loader, ncalls, mode, wf, stepIdx, calls, err, prev,
                   inflight, loads, validatorVars, execVars, ctorVars, cmdVars, initVars>>

(* outer loop exhausted: the completion marker, return nil                 *)
Complete ==
    /\ pc = "stage"
    /\ stageIdx = Len(wf.stages)
    /\ out' = Append(out, Line("completed", mode = "DryRun", -1, -1, "", "",
                               <<>>, 0))
    /\ pc' = "returned"
    /\ UNCHANGED <<doc, loader, ncalls, mode, wf, stageIdx, stepIdx, calls,
                   err, prev, inflight, loads, validatorVars, execVars, ctorVars, cmdVars, initVars>>

Next ==
    \/ Run_Enter
    \/ DryRun_Enter
    \/ Load
    \/ StageStart
    \/ Run_Step
    \/ Run_Return
    \/ Run_Panic
    \/ DryRun_Step
    \/ StageCompleted
    \/ Complete

Spec == Init /\ [][Next]_vars

(* the steps a call of Run or DryRun takes by itself once it is entered:   *)
(* the code is sequential, so a statement that can execute does; the       *)
(* loader and the capabilities are taken to return (or, for the default    *)
(* runCommand on an empty argv, to panic)                                  *)
CallStep ==
    \/ Load
    \/ StageStart
    \/ Run_Step
    \/ Run_Return
    \/ Run_Panic
    \/ DryRun_Step
    \/ StageCompleted
    \/ Complete

(* one call of Run or DryRun on a new Runner: whether a call terminates    *)
(* does not depend on the calls before it, of which the Runner keeps       *)
(* nothing                                                                 *)
Run_Call == ncalls = 0 /\ Run_Enter

DryRun_Call == ncalls = 0 /\ DryRun_Enter

NextLive ==
    \/ Run_Call
    \/ DryRun_Call
    \/ CallStep

SpecCall == Init /\ [][NextLive]_vars

SpecLive == SpecCall /\ WF_vars(CallStep)

(* ------------------------------ validator specification ---------------- *)
ValidatorSteps ==
    { Step("compile", StepTypeExec, <<"go", "build">>, 0),
      Step("wait", StepTypeSleep, <<>>, 2),
      Step("", StepTypeExec, <<"go", "test">>, 0),
      Step("norun", StepTypeExec, <<>>, 0),
      Step("nowait", StepTypeSleep, <<>>, 0),
      Step("back", StepTypeSleep, <<>>, -1),
      Step("mystery", "unknown", <<"go", "vet">>, 2) }

(* named[i] tells whether stage i has a name *)
ValidatorWorkflow(name, named, flat, lens) ==
    Workflow(name,
             [i \in 1..Len(lens) |->
                Stage(IF named[i] THEN StageNames[i] ELSE "",
                      StageSteps(flat, lens, i))])

RunnerIdle ==
    /\ doc = Unreadable
    /\ loader = "mock"
    /\ ncalls = 0
    /\ mode = "none"
    /\ pc = "idle"
    /\ wf = NoWorkflow
    /\ stageIdx = 0
    /\ stepIdx = 0
    /\ out = <<>>
    /\ calls = <<>>
    /\ inflight = <<>>
    /\ loads = <<>>
    /\ err = Nil
    /\ prev = NoCall

InitV ==
    /\ RunnerIdle
    /\ \E name \in {"", "wf"}, n \in 0..MaxSteps, k \in 0..MaxStages :
         \E named \in [1..k -> BOOLEAN], flat \in [1..n -> ValidatorSteps],
            lens \in Layouts(n, k) :
           vwf = ValidatorWorkflow(name, named, flat, lens)
    /\ vpc = "input"
    /\ vres = Nil
    /\ vst = NoStageCall
    /\ vsp = NoStepCall
    /\ ExecIdle
    /\ CtorIdle
    /\ CmdIdle
    /\ InitIdle

(* err := w.Validate() *)
Workflow_Validate ==
    /\ vpc = "input"
    /\ vres' = Validate(vwf)
    /\ vpc' = "validated"
    /\ UNCHANGED <<vwf, vst, vsp, runnerVars, execVars, ctorVars, cmdVars, initVars>>

(* err := w.Stages[i-1].Validate(), the stage validated on its own *)
Stage_Validate ==
    /\ vpc = "validated"
    /\ \E i \in 1..Len(vwf.stages) :
         vst' = [i |-> i, stage |-> vwf.stages[i],
                 res |-> StageValidate(vwf.stages[i])]
    /\ vpc' = "stage"
    /\ UNCHANGED <<vwf, vres, vsp, runnerVars, execVars, ctorVars, cmdVars, initVars>>

(* err := stage.Steps[j-1].Validate(), a step of the stage just validated, *)
(* validated on its own                                                    *)
Step_Validate ==
    /\ vpc = "stage"
    /\ \E j \in 1..Len(vst.stage.steps) :
         vsp' = [j |-> j, step |-> vst.stage.steps[j],
                 res |-> StepValidate(vst.stage.steps[j])]
    /\ vpc' = "step"
    /\ UNCHANGED <<vwf, vres, vst, runnerVars, execVars, ctorVars, cmdVars, initVars>>

NextV ==
    \/ Workflow_Validate
    \/ Stage_Validate
    \/ Step_Validate

SpecV == InitV /\ [][NextV]_vars

(* ------------------------------ Step.Validate on a step literal -------- *)
StepNames == {"", "lint"}

StepTypes == {StepTypeExec, StepTypeSleep, "", "unknown", "EXEC"}

StepRuns == {<<>>, <<"go", "vet">>}

StepSeconds == {-1, 0, 2}

InitStep ==
    /\ RunnerIdle
    /\ ExecIdle
    /\ CtorIdle
    /\ CmdIdle
    /\ InitIdle
    /\ vwf = NoWorkflow
    /\ vres = Nil
    /\ vst = NoStageCall
    /\ \E name \in StepNames, type \in StepTypes, run \in StepRuns,
          seconds \in StepSeconds :
         vsp = [j |-> 0, step |-> Step(name, type, run, seconds), res |-> Nil]
    /\ vpc = "stepInput"

(* err := tt.f.Validate() *)
Step_Validate_Literal ==
    /\ vpc = "stepInput"
    /\ vsp' = [vsp EXCEPT !.res = StepValidate(vsp.step)]
    /\ vpc' = "step"
    /\ UNCHANGED <<vwf, vres, vst, runnerVars, execVars, ctorVars, cmdVars, initVars>>

NextStep == Step_Validate_Literal

SpecStep == InitStep /\ [][NextStep]_vars

(* ------------------------------ executeStep on a sleep step ------------ *)
InitX ==
    /\ RunnerIdle
    /\ ValidatorIdle
    /\ CtorIdle
    /\ CmdIdle
    /\ InitIdle
    /\ \E seconds \in 1..MaxSeconds :
         xstep = Step("wait", StepTypeSleep, <<>>, seconds)
    /\ xpc = "input"
    /\ xres = NoEffects

(* err := runner.executeStep(step) *)
ExecuteStep ==
    /\ xpc = "input"
    /\ xres' = executeStep(xstep, Nil)
    /\ xpc' = "done"
    /\ UNCHANGED <<xstep, runnerVars, validatorVars, ctorVars, cmdVars, initVars>>

NextX == ExecuteStep

SpecX == InitX /\ [][NextX]_vars

(* ------------------------------ NewRunner ------------------------------ *)
(* the value of a collaborator field: nil, the default NewRunner installs, *)
(* or a substitute given by the caller                                     *)
NilValue == "nil"

Collaborators == {"LoadWorkflow", "RunCmd", "Sleep", "Out"}

(* an Option sets one field of the Runner it is applied to *)
WithOut(w) == [field |-> "Out", value |-> w]

WithLoadWorkflow(f) == [field |-> "LoadWorkflow", value |-> f]

WithRunCmd(f) == [field |-> "RunCmd", value |-> f]

WithSleep(f) == [field |-> "Sleep", value |-> f]

Option(opt, r) == [r EXCEPT ![opt.field] = opt.value]

Options ==
    UNION { {WithOut(v), WithLoadWorkflow(v), WithRunCmd(v), WithSleep(v)} :
            v \in {NilValue, "substitute"} }

(* r := &Runner{...} of NewRunner *)
Runner(path) ==
    [path |-> path,
     LoadWorkflow |-> "dsl.LoadWorkflowFromFile",
     RunCmd |-> "runCommand",
     Sleep |-> "time.Sleep",
     Out |-> "os.Stdout"]

NotConfigured == ErrorsNew("runner not properly configured")

InitN ==
    /\ RunnerIdle
    /\ ValidatorIdle
    /\ ExecIdle
    /\ CmdIdle
    /\ InitIdle
    /\ \E n \in 0..MaxOpts : nopts \in [1..n -> Options]
    /\ nidx = 0
    /\ nr = NilRunner
    /\ npc = "input"
    /\ nret = NoReturn

NewRunner_Defaults ==
    /\ npc = "input"
    /\ nr' = Ref(Runner(Path))
    /\ npc' = "options"
    /\ UNCHANGED <<nopts, nidx, nret, runnerVars, validatorVars, execVars,
                   cmdVars, initVars>>

(* the option loop skipping an option whose collaborator an earlier       *)
(* option has already replaced                                             *)
NewRunner_Option_FirstWins ==
    /\ npc = "options"
    /\ nidx < Len(nopts)
    /\ LET opt == nopts[nidx + 1]
       IN  nr' = (IF nr[1][opt.field] = Runner(Path)[opt.field]
                  THEN Ref(Option(opt, nr[1]))
                  ELSE nr)
    /\ nidx' = nidx + 1
    /\ UNCHANGED <<nopts, npc, nret, runnerVars, validatorVars, execVars,
                   cmdVars, initVars>>

(* one iteration of: for _, opt := range opts { opt(r) } *)
NewRunner_Option ==
    /\ npc = "options"
    /\ nidx < Len(nopts)
    /\ nr' = Ref(Option(nopts[nidx + 1], nr[1]))
    /\ nidx' = nidx + 1
    /\ UNCHANGED <<nopts, npc, nret, runnerVars, validatorVars, execVars,
                   cmdVars, initVars>>

(* the nil check of NewRunner leaving out r.Out *)
NewRunner_Return_NoOutCheck ==
    /\ npc = "options"
    /\ nidx = Len(nopts)
    /\ LET r == nr[1]
       IN  IF \/ r.LoadWorkflow = NilValue
              \/ r.RunCmd = NilValue
              \/ r.Sleep = NilValue
           THEN nret' = [r |-> NilRunner, err |-> NotConfigured]
           ELSE nret' = [r |-> nr, err |-> Nil]
    /\ npc' = "returned"
    /\ UNCHANGED <<nopts, nidx, nr, runnerVars, validatorVars, execVars,
                   cmdVars, initVars>>

(* the nil check and the return of NewRunner *)
NewRunner_Return ==
    /\ npc = "options"
    /\ nidx = Len(nopts)
    /\ LET r == nr[1]
       IN  IF \/ r.LoadWorkflow = NilValue
              \/ r.RunCmd = NilValue
              \/ r.Sleep = NilValue
              \/ r.Out = NilValue
           THEN nret' = [r |-> NilRunner, err |-> NotConfigured]
           ELSE nret' = [r |-> nr, err |-> Nil]
    /\ npc' = "returned"
    /\ UNCHANGED <<nopts, nidx, nr, runnerVars, validatorVars, execVars,
                   cmdVars, initVars>>

NextN ==
    \/ NewRunner_Defaults
    \/ NewRunner_Option
    \/ NewRunner_Return

SpecN == InitN /\ [][NextN]_vars

(* ------------------------------ run / dry-run commands ----------------- *)
workflowEmptyPathErr == ErrorsNew("workflow path cannot be empty")

workflowNotFoundErr == ErrorsNew("workflow file not found")

runnerCreationErr == ErrorsNew("failed to create runner")

workflowExecutionErr == ErrorsNew("workflow execution failed")

(* what os.Stat finds at a path: the file, nothing, or a directory it may  *)
(* not search; the empty path names nothing                                *)
StatResults == {"exists", "notExist", "denied"}

CheckFilePathExistAndIsNotEmpty(path, stat) ==
    IF path = "" THEN workflowEmptyPathErr
    ELSE IF stat = "notExist" THEN workflowNotFoundErr
    ELSE Nil

(* what the factory given to the command can return                        *)
FactoryResults == {Nil, NotConfigured}

(* what Run returns for a one-step workflow: nil, the loader's error, or   *)
(* the error of the step wrapped with the stage and the step               *)
StepFailure(stageName, step, res) ==
    Wrap(Layer("stage '%s', step '%s': %w", -1, stageName, step.name),
         executeStep(step, res).err)

RunResults ==
    {Nil, LoadFailed, LoadWorkflowFromFile(Unreadable).err}
    \cup { StepFailure(StageNames[1],
                       Step("compile", StepTypeExec, <<"go", "build">>, 0), res) :
             res \in CmdErrors }
    \cup { StepFailure(StageNames[2], Step("mystery", "unknown", <<>>, 0), Nil) }

(* what DryRun returns: nil, or the loader's error                         *)
DryRunResults ==
    {Nil, LoadFailed, LoadWorkflowFromFile(Unreadable).err,
     LoadWorkflowFromFile([readable |-> TRUE, wf |-> Workflow("", <<>>)]).err}

InitCmd ==
    /\ RunnerIdle
    /\ ValidatorIdle
    /\ ExecIdle
    /\ CtorIdle
    /\ InitIdle
    /\ \E cmd \in {"run", "dry-run"}, path \in {"", Path},
          factory \in FactoryResults :
         \E stat \in (IF path = "" THEN {"notExist"} ELSE StatResults),
            exec \in (IF cmd = "run" THEN RunResults ELSE DryRunResults) :
           cin = [cmd |-> cmd, path |-> path, stat |-> stat,
                  factory |-> factory, exec |-> exec]
    /\ cpc = "input"
    /\ ctrace = <<>>
    /\ cret = Nil

(* if err := CheckFilePathExistAndIsNotEmpty(workflow); err != nil *)
CheckPath(cmd) ==
    /\ cin.cmd = cmd
    /\ cpc = "input"
    /\ LET e == CheckFilePathExistAndIsNotEmpty(cin.path, cin.stat)
       IN  IF e # Nil
           THEN cret' = e /\ cpc' = "returned"
           ELSE cpc' = "factory" /\ UNCHANGED cret
    /\ UNCHANGED <<cin, ctrace, runnerVars, validatorVars, execVars, ctorVars,
                   initVars>>

(* r, err := newRunner(workflow, runner.WithOut(out)) *)
CreateRunner(cmd) ==
    /\ cin.cmd = cmd
    /\ cpc = "factory"
    /\ ctrace' = Append(ctrace, "newRunner")
    /\ IF cin.factory # Nil
       THEN cret' = runnerCreationErr /\ cpc' = "returned"
       ELSE cpc' = "exec" /\ UNCHANGED cret
    /\ UNCHANGED <<cin, runnerVars, validatorVars, execVars, ctorVars,
                   initVars>>

(* if err := r.Run(); err != nil, and the same on r.DryRun() *)
Execute(cmd, method) ==
    /\ cin.cmd = cmd
    /\ cpc = "exec"
    /\ ctrace' = Append(ctrace, method)
    /\ cret' = (IF cin.exec # Nil THEN workflowExecutionErr ELSE Nil)
    /\ cpc' = "returned"
    /\ UNCHANGED <<cin, runnerVars, validatorVars, execVars, ctorVars,
                   initVars>>

runRun_CheckPath == CheckPath("run")

runRun_NewRunner == CreateRunner("run")

runRun_Run == Execute("run", "Run")

runDryRun_CheckPath == CheckPath("dry-run")

(* runDryRun reporting a failed factory as a failed execution             *)
runDryRun_NewRunner_AsExecution ==
    /\ cin.cmd = "dry-run"
    /\ cpc = "factory"
    /\ ctrace' = Append(ctrace, "newRunner")
    /\ IF cin.factory # Nil
       THEN cret' = workflowExecutionErr /\ cpc' = "returned"
       ELSE cpc' = "exec" /\ UNCHANGED cret
    /\ UNCHANGED <<cin, runnerVars, validatorVars, execVars, ctorVars,
                   initVars>>

runDryRun_NewRunner == CreateRunner("dry-run")

runDryRun_DryRun == Execute("dry-run", "DryRun")

NextCmd ==
    \/ runRun_CheckPath
    \/ runRun_NewRunner
    \/ runRun_Run
    \/ runDryRun_CheckPath
    \/ runDryRun_NewRunner
    \/ runDryRun_DryRun

SpecCmd == InitCmd /\ [][NextCmd]_vars

(* ------------------------------ init command -------------------------- *)
errFileExists == ErrorsNew("file already exists")

errWriteFailed == ErrorsNew("failed to write template file")

Template == "<template>"

(* the directory lets the process create files, only look files up, or     *)
(* not even look them up (no search permission)                            *)
DirModes == {"writable", "readonly", "unsearchable"}

(* the error of os.Stat(name) *)
Stat(fs, d, name) ==
    IF d = "unsearchable" THEN ErrorsNew("permission denied")
    ELSE IF fs[name] = Absent THEN ErrorsNew("no such file or directory")
    ELSE Nil

(* dsl.WriteTemplate(name): creates or truncates the file and writes the   *)
(* template, when the directory allows it and the write goes through       *)
WriteTemplate(fs, d, name, written) ==
    IF d = "unsearchable" \/ (d = "readonly" /\ fs[name] = Absent) \/ ~written
    THEN [files |-> fs, err |-> ErrorsNew("write failed")]
    ELSE [files |-> [fs EXCEPT ![name] = Template], err |-> Nil]

TargetOf(fileName) == IF fileName = "" THEN defaultFileName ELSE fileName

InitInit ==
    /\ RunnerIdle
    /\ ValidatorIdle
    /\ ExecIdle
    /\ CtorIdle
    /\ CmdIdle
    /\ files \in [FileNames -> {Absent, "existing content"}]
    /\ dir \in DirModes
    /\ ilog = <<>>

(* runWriteTemplate without the os.Stat test *)
runWriteTemplate_NoStat ==
    /\ Len(ilog) < MaxCalls
    /\ \E fileName \in {""} \cup FileNames, written \in BOOLEAN :
         LET name == TargetOf(fileName)
             w == WriteTemplate(files, dir, name, written)
             ret == IF w.err # Nil THEN errWriteFailed ELSE Nil
         IN  /\ files' = w.files
             /\ ilog' = Append(ilog, [fileName |-> fileName, before |-> files,
                                      ret |-> ret])
    /\ UNCHANGED <<dir, runnerVars, validatorVars, execVars, ctorVars, cmdVars>>

runWriteTemplate ==
    /\ Len(ilog) < MaxCalls
    /\ \E fileName \in {""} \cup FileNames, written \in BOOLEAN :
         LET name == TargetOf(fileName)
             w == WriteTemplate(files, dir, name, written)
             ret == IF Stat(files, dir, name) = Nil THEN errFileExists
                    ELSE IF w.err # Nil THEN errWriteFailed
                    ELSE Nil
         IN  /\ files' = (IF Stat(files, dir, name) = Nil THEN files ELSE w.files)
             /\ ilog' = Append(ilog, [fileName |-> fileName, before |-> files,
                                      ret |-> ret])
    /\ UNCHANGED <<dir, runnerVars, validatorVars, execVars, ctorVars, cmdVars>>

NextInit == runWriteTemplate

SpecInit == InitInit /\ [][NextInit]_vars

(* ======================================================================= *)
(* Properties                                                              *)
(* ======================================================================= *)

(* ------------------------------ vocabulary ----------------------------- *)
IsPrefix(a, b) == Len(a) <= Len(b) /\ a = SubSeq(b, 1, Len(a))

KnownType(t) == t \in {StepTypeExec, StepTypeSleep}

(* the steps of w in declaration order, stage-major then step-minor, each  *)
(* with its 1-based position and the name of its stage                     *)
RECURSIVE PositionsFrom(_, _, _)
PositionsFrom(w, i, j) ==
    IF i > Len(w.stages) THEN <<>>
    ELSE IF j > Len(w.stages[i].steps) THEN PositionsFrom(w, i + 1, 1)
    ELSE <<[i |-> i, j |-> j, stage |-> w.stages[i].name,
            step |-> w.stages[i].steps[j]]>> \o PositionsFrom(w, i, j + 1)

Positions(w) == PositionsFrom(w, 1, 1)

IsKnownPosition(p) == KnownType(p.step.type)

KnownPositions(w) == SelectSeq(Positions(w), IsKnownPosition)

(* the successful invocation a step of known type stands for *)
InvocationOf(p) ==
    IF p.step.type = StepTypeExec
    THEN Call("RunCmd", p.step.run, 0, Nil)
    ELSE Call("Sleep", <<>>, p.step.seconds * Second, Nil)

InvocationsOf(ps) == [k \in 1..Len(ps) |-> InvocationOf(ps[k])]

ExpectedCalls(w) == InvocationsOf(KnownPositions(w))

AllSucceeded(cs) == \A k \in 1..Len(cs) : cs[k].res = Nil

(* what the loader bound to the Runner returns for the document at r.path *)
LoadErr == LoadWorkflow(loader, doc).err

(* the current call is past a successful LoadWorkflow *)
Loaded == mode # "none" /\ pc # "load" /\ LoadErr = Nil

IsStepMarker(l) == l.kind = "step"

StepMarkers(o) == SelectSeq(o, IsStepMarker)

IsTraversalLine(l) == l.kind \in {"stage", "step", "stageCompleted"}

(* the stage and step markers of a trace, without the [DRY-RUN] prefix *)
Traversal(o) ==
    LET m == SelectSeq(o, IsTraversalLine)
    IN  [k \in 1..Len(m) |->
           [kind |-> m[k].kind, i |-> m[k].i, j |-> m[k].j,
            name |-> m[k].name, typ |-> m[k].typ]]

HasUnknown(w) == \E k \in 1..Len(Positions(w)) : ~IsKnownPosition(Positions(w)[k])

FirstUnknown(w) ==
    CHOOSE u \in 1..Len(Positions(w)) :
        /\ ~IsKnownPosition(Positions(w)[u])
        /\ \A k \in 1..(u - 1) : IsKnownPosition(Positions(w)[k])

(* the data model's invariants, stated on the structure *)
StepWellFormed(sp) ==
    /\ sp.name # ""
    /\ KnownType(sp.type)
    /\ sp.type = StepTypeExec => Len(sp.run) >= 1
    /\ sp.type = StepTypeSleep => sp.seconds > 0

StageWellFormed(st) ==
    /\ st.name # ""
    /\ Len(st.steps) >= 1
    /\ \A j \in 1..Len(st.steps) : StepWellFormed(st.steps[j])

WellFormed(w) ==
    /\ w.name # ""
    /\ Len(w.stages) >= 1
    /\ \A i \in 1..Len(w.stages) : StageWellFormed(w.stages[i])

(* the rules an element violates by itself, as the errors that report them *)
WorkflowRules(w) ==
    {ErrorsNew("workflow name is required") : x \in {y \in {1} : w.name = ""}}
    \cup {ErrorsNew("workflow must have at least one stage") :
            x \in {y \in {1} : Len(w.stages) = 0}}

StageRules(st) ==
    {ErrorsNew("stage name is required") : x \in {y \in {1} : st.name = ""}}
    \cup {ErrorsNew("stage must have at least one step") :
            x \in {y \in {1} : Len(st.steps) = 0}}

StepRules(sp) ==
    {ErrorsNew("step name is required") : x \in {y \in {1} : sp.name = ""}}
    \cup {ErrorsNew("exec step requires 'run' command") :
            x \in {y \in {1} : sp.type = StepTypeExec /\ Len(sp.run) = 0}}
    \cup {ErrorsNew("sleep step requires positive 'seconds' value") :
            x \in {y \in {1} : sp.type = StepTypeSleep /\ sp.seconds <= 0}}
    \cup {<<Layer("unknown step type: %s", -1, sp.type, "")>> :
            x \in {y \in {1} : ~KnownType(sp.type)}}

(* the errors that report the first violation of w in the walk: workflow, *)
(* then each stage (itself, then its steps in order)                       *)
FirstViolationErrors(w) ==
    IF WorkflowRules(w) # {} THEN WorkflowRules(w)
    ELSE IF \A i \in 1..Len(w.stages) : StageWellFormed(w.stages[i]) THEN {}
    ELSE LET i == CHOOSE n \in 1..Len(w.stages) :
                     /\ ~StageWellFormed(w.stages[n])
                     /\ \A k \in 1..(n - 1) : StageWellFormed(w.stages[k])
             st == w.stages[i]
             atStage == Layer("stage %d (%s): %w", i - 1, st.name, "")
         IN  IF StageRules(st) # {}
             THEN {Wrap(atStage, e) : e \in StageRules(st)}
             ELSE LET j == CHOOSE n \in 1..Len(st.steps) :
                              /\ ~StepWellFormed(st.steps[n])
                              /\ \A k \in 1..(n - 1) : StepWellFormed(st.steps[k])
                      sp == st.steps[j]
                      atStep == Layer("step %d (%s): %w", j - 1, sp.name, "")
                  IN  {Wrap(atStage, Wrap(atStep, e)) : e \in StepRules(sp)}

(* ------------------------------ C1 ------------------------------------- *)
(* C1: for a workflow that passes Validate, as long as every command      *)
(* invocation of a Run succeeded, the invocations made so far are the      *)
(* first ones of the workflow's steps in stage-major, step-minor order     *)
(* (RunCmd with the step's argv, Sleep with its seconds), and when Run     *)
(* returns they are exactly one invocation per step, in that order.        *)
C1_RunInvokesEachStepOnceInOrder ==
    (mode = "Run" /\ Loaded /\ Validate(wf) = Nil /\ AllSucceeded(calls)) =>
        /\ IsPrefix(calls, ExpectedCalls(wf))
        /\ (pc = "returned" => calls = ExpectedCalls(wf))

C1_Witness ==
    /\ mode = "Run" /\ pc = "returned" /\ Loaded
    /\ Validate(wf) = Nil /\ AllSucceeded(calls)
    /\ Len(wf.stages) = 2
    /\ Len(calls) = 2
    /\ calls[1].cap = "Sleep" /\ calls[1].d = 2 * Second
    /\ calls[2].cap = "RunCmd" /\ calls[2].argv = <<"go", "test">>

(* ------------------------------ C2 ------------------------------------- *)
(* C2: when a RunCmd invocation of a Run has failed, it is the last        *)
(* invocation of that Run (no retry, no later RunCmd or Sleep), Run has    *)
(* returned, and the error is the cause wrapped as "command execution      *)
(* failed" and then with the names of the stage and step that own the      *)
(* failing invocation.                                                     *)
C2_CommandFailureAborts ==
    mode = "Run" =>
        \A k \in 1..Len(calls) :
            calls[k].res # Nil =>
                /\ k = Len(calls)
                /\ pc = "returned"
                /\ LET owner == KnownPositions(wf)[k]
                   IN  /\ owner.step.type = StepTypeExec
                       /\ owner.step.run = calls[k].argv
                       /\ err = Wrap(Layer("stage '%s', step '%s': %w", -1,
                                           owner.stage, owner.step.name),
                                     Wrap(Layer("command execution failed: %w",
                                                -1, "", ""),
                                          calls[k].res))

C2_Witness ==
    /\ mode = "Run" /\ pc = "returned"
    /\ Len(calls) = 1
    /\ calls[1].res = ErrorsNew("signal: killed")
    /\ Len(KnownPositions(wf)) = 2
    /\ KnownPositions(wf)[1].i = 1
    /\ KnownPositions(wf)[2].i = 2

(* ------------------------------ C3 ------------------------------------- *)
(* C3: a DryRun invokes neither RunCmd nor Sleep, whatever the loader      *)
(* returned.                                                               *)
C3_DryRunInvokesNothing ==
    mode = "DryRun" => calls = <<>>

C3_Witness ==
    /\ mode = "DryRun" /\ pc = "returned" /\ Loaded
    /\ calls = <<>>
    /\ \E k \in 1..Len(Positions(wf)) : Positions(wf)[k].step.type = StepTypeExec
    /\ \E k \in 1..Len(Positions(wf)) : Positions(wf)[k].step.type = StepTypeSleep

(* ------------------------------ C4 ------------------------------------- *)
(* C4 as stated: Run makes no invocation for a workflow on which Validate  *)
(* fails, whichever loader is bound to the Runner.                         *)
C4_Original ==
    (mode = "Run" /\ doc.readable /\ Validate(doc.wf) # Nil) => calls = <<>>

(* C4: Run does not validate; with the default loader                      *)
(* LoadWorkflowFromFile, which validates, a workflow on which Validate     *)
(* fails never gets past the load: Run makes no invocation, never enters   *)
(* the stage loop and returns an error.                                    *)
C4_DefaultLoaderValidatesBeforeRun ==
    (mode = "Run" /\ loader = "LoadWorkflowFromFile"
        /\ doc.readable /\ Validate(doc.wf) # Nil) =>
        /\ calls = <<>>
        /\ pc \in {"load", "returned"}
        /\ (pc = "returned" => err # Nil)

C4_Witness ==
    /\ mode = "Run" /\ pc = "returned" /\ loader = "LoadWorkflowFromFile"
    /\ doc.readable /\ Validate(doc.wf) # Nil
    /\ ExpectedCalls(doc.wf) # <<>>
    /\ err # Nil

(* ------------------------------ C5 ------------------------------------- *)
(* C5: Workflow.Validate returns nil exactly for the workflows that meet   *)
(* all the invariants of the data model.                                   *)
C5_ValidateIffWellFormed ==
    vpc = "validated" => (vres = Nil <=> WellFormed(vwf))

C5_Witness ==
    /\ vpc = "validated" /\ vres = Nil
    /\ Len(vwf.stages) = 2
    /\ \E j \in 1..Len(vwf.stages[2].steps) :
           vwf.stages[2].steps[j].type = StepTypeSleep

(* ------------------------------ C6 ------------------------------------- *)
(* C6: the error Validate returns is a single chain that reports the       *)
(* first violation in the walk workflow, stage 0 (itself, then its steps), *)
(* stage 1, ...: it locates the first ill-formed stage, and within it the  *)
(* stage itself before its first ill-formed step, and names a rule that    *)
(* element violates.                                                       *)
C6_ValidateFailFast ==
    (vpc = "validated" /\ vres # Nil) => vres \in FirstViolationErrors(vwf)

C6_Witness ==
    /\ vpc = "validated" /\ vres # Nil
    /\ vwf.name # ""
    /\ Len(vwf.stages) = 2
    /\ ~StageWellFormed(vwf.stages[1])
    /\ ~StageWellFormed(vwf.stages[2])
    /\ Len(vwf.stages[1].steps) = 2
    /\ StepWellFormed(vwf.stages[1].steps[1])
    /\ vres[1].idx = 0
    /\ vres[2].idx = 1

(* ------------------------------ C7 ------------------------------------- *)
(* C7: in a Run whose commands succeed, over a workflow with a step of     *)
(* unknown type, nothing is invoked or marked past the first such step,    *)
(* and Run returns with: the error "unknown step type" wrapped with the    *)
(* names of that step's stage and of the step, exactly the invocations of  *)
(* the steps before it, the step's own marker as the last step marker,     *)
(* and no completion marker.                                               *)
C7_UnknownTypeAbortsRun ==
    (mode = "Run" /\ Loaded /\ HasUnknown(wf) /\ AllSucceeded(calls)) =>
        LET P == Positions(wf)
            u == FirstUnknown(wf)
            before == InvocationsOf(SubSeq(P, 1, u - 1))
            markers == StepMarkers(out)
        IN  /\ Len(markers) <= u
            /\ IsPrefix(calls, before)
            /\ \A k \in 1..Len(out) : out[k].kind # "completed"
            /\ pc = "returned" =>
                 /\ err = <<Layer("stage '%s', step '%s': %w", -1,
                                  P[u].stage, P[u].step.name),
                            Layer("unknown step type: %s", -1, P[u].step.type, "")>>
                 /\ calls = before
                 /\ Len(markers) = u
                 /\ markers[u].i = P[u].i /\ markers[u].j = P[u].j
                 /\ out[Len(out)] = markers[u]

C7_Witness ==
    /\ mode = "Run" /\ pc = "returned" /\ Loaded
    /\ HasUnknown(wf) /\ AllSucceeded(calls)
    /\ FirstUnknown(wf) = 1
    /\ Len(Positions(wf)) = 2
    /\ Positions(wf)[2].i = 2
    /\ Positions(wf)[2].step.type = StepTypeExec
    /\ calls = <<>>
    /\ err # Nil

(* ------------------------------ C8 ------------------------------------- *)
(* the last Run and the last DryRun of a Runner on which one followed the  *)
(* other, on the same document, and both have returned                     *)
BothReturned ==
    /\ pc = "returned" /\ prev.mode # "none" /\ prev.mode # mode
    /\ prev.doc = doc

RunCall ==
    IF mode = "Run" THEN [out |-> out, calls |-> calls, err |-> err]
    ELSE [out |-> prev.out, calls |-> prev.calls, err |-> prev.err]

DryRunCall ==
    IF mode = "DryRun" THEN [out |-> out, calls |-> calls, err |-> err]
    ELSE [out |-> prev.out, calls |-> prev.calls, err |-> prev.err]

SameTraversalAndOutcome ==
    /\ Traversal(RunCall.out) = Traversal(DryRunCall.out)
    /\ (RunCall.err = Nil <=> DryRunCall.err = Nil)

(* C8 as stated: for every workflow the loader returns, a Run whose        *)
(* commands all succeed and a DryRun write the same stage and step markers *)
(* in the same order and end with the same outcome.                        *)
C8_Original ==
    (BothReturned /\ LoadErr = Nil /\ AllSucceeded(RunCall.calls)) =>
        SameTraversalAndOutcome

(* C8: for every workflow the loader returns whose steps are all of type   *)
(* exec or sleep, a Run whose commands all succeed and a DryRun write the  *)
(* same stage and step markers in the same order and both succeed.         *)
C8_SameTraversalOnKnownTypes ==
    (BothReturned /\ LoadErr = Nil /\ AllSucceeded(RunCall.calls)
        /\ ~HasUnknown(doc.wf)) =>
        /\ SameTraversalAndOutcome
        /\ RunCall.err = Nil

C8_Witness ==
    /\ BothReturned /\ LoadErr = Nil /\ AllSucceeded(RunCall.calls)
    /\ ~HasUnknown(doc.wf)
    /\ mode = "DryRun"
    /\ Len(doc.wf.stages) = 2
    /\ Len(Positions(doc.wf)) = 2
    /\ Len(Traversal(out)) = 6
    /\ \E k \in 1..Len(Positions(doc.wf)) :
           Positions(doc.wf)[k].step.type = StepTypeSleep

(* ------------------------------ C9 ------------------------------------- *)
(* C9: the only error a DryRun ever holds is the loader's, and a DryRun    *)
(* that has returned failed exactly when the loader did; after a           *)
(* successful load it returned nil with the simulation-completed marker as *)
(* the last line, whatever the steps are.                                  *)
C9_DryRunFailsOnlyOnLoad ==
    mode = "DryRun" =>
        /\ (err # Nil => err = LoadErr)
        /\ pc = "returned" =>
             /\ (err # Nil <=> LoadErr # Nil)
             /\ LoadErr = Nil =>
                  out[Len(out)] = Line("completed", TRUE, -1, -1, "", "", <<>>, 0)

C9_Witness ==
    /\ mode = "DryRun" /\ pc = "returned" /\ Loaded
    /\ err = Nil
    /\ HasUnknown(wf)
    /\ \E i \in 1..Len(wf.stages) : Len(wf.stages[i].steps) = 0
    /\ \E k \in 1..Len(Positions(wf)) : Positions(wf)[k].step.type = StepTypeExec

(* ------------------------------ C10 ------------------------------------ *)
(* C10: when LoadWorkflow returns an error, a call of Run or DryRun that   *)
(* has returned returned that very error, invoked nothing, and wrote the   *)
(* start marker and no other line.                                         *)
C10_LoadErrorReturnedAsIs ==
    (pc = "returned" /\ LoadErr # Nil) =>
        /\ err = LoadErr
        /\ ErrorsIs(err, LoadErr)
        /\ calls = <<>>
        /\ out = <<Line("start", mode = "DryRun", -1, -1, Path, "", <<>>, 0)>>

C10_Witness ==
    /\ pc = "returned" /\ LoadErr # Nil
    /\ loader = "mock"
    /\ mode = "Run" /\ prev.mode = "DryRun"
    /\ err = LoadFailed /\ prev.err = LoadFailed
    /\ Len(out) = 1 /\ Len(prev.out) = 1

(* ----------------------------------------------------------------------- *)
(* C11  A call of Run ends in exactly one of two outcomes. Completed: it   *)
(* returns nil and the completion marker is the last line of its trace.    *)
(* Failed: it returns an error and its trace has no completion marker.     *)
(* The marker is in the trace iff Run has returned nil. Once Run has       *)
(* failed it has returned: no line is written and no capability invoked    *)
(* after the failure, and a returned call never changes again (no retry,   *)
(* no partial success).                                                    *)
HasCompletion(o) == \E k \in 1..Len(o) : o[k].kind = "completed"

RunOutcome ==
    mode = "Run" =>
      /\ err # Nil => pc = "returned"
      /\ HasCompletion(out) <=> (pc = "returned" /\ err = Nil)
      /\ HasCompletion(out) =>
            /\ out[Len(out)].kind = "completed"
            /\ \A k \in 1..(Len(out) - 1) : out[k].kind # "completed"

RunOutcomeIsFinal ==
    (mode = "Run" /\ pc = "returned" /\ ncalls' = ncalls) =>
      UNCHANGED <<mode, pc, out, calls, err>>

C11_RunCompletesOrFails == [] RunOutcome /\ [][RunOutcomeIsFinal]_vars

(* a Runner whose first Run completed and whose second Run failed after    *)
(* having invoked a capability                                             *)
C11_Witness ==
    /\ mode = "Run" /\ pc = "returned" /\ err # Nil
    /\ Len(calls) >= 1
    /\ ~HasCompletion(out)
    /\ prev.mode = "Run" /\ prev.err = Nil
    /\ HasCompletion(prev.out)

(* ----------------------------------------------------------------------- *)
(* C12  The markers of a successful Run are, in this order: the start      *)
(* marker; for each stage in declared order its stage-start marker         *)
(* (1-based index, name), its step markers in declared order (1-based      *)
(* stage.step index, name, type) and its stage-completed marker; the       *)
(* completion marker last. While Run goes on, and when it fails, what it   *)
(* has written is a prefix of that sequence.                               *)
StageBlock(stage, i) ==
    (<<Line("stage", FALSE, i, -1, stage.name, "", <<>>, 0)>>
     \o [j \in 1..Len(stage.steps) |->
           Line("step", FALSE, i, j, stage.steps[j].name, stage.steps[j].type,
                <<>>, 0)])
    \o <<Line("stageCompleted", FALSE, i, -1, "", "", <<>>, 0)>>

RECURSIVE StageBlocks(_, _)
StageBlocks(stages, i) ==
    IF i > Len(stages) THEN <<>>
    ELSE StageBlock(stages[i], i) \o StageBlocks(stages, i + 1)

ExpectedMarkers(w) ==
    (<<Line("start", FALSE, -1, -1, Path, "", <<>>, 0)>>
     \o StageBlocks(w.stages, 1))
    \o <<Line("completed", FALSE, -1, -1, "", "", <<>>, 0)>>

IsMarker(l) == l.kind # "sleeping"

Markers(o) == SelectSeq(o, IsMarker)

C12_RunMarkerOrder ==
    mode = "Run" =>
      /\ IsPrefix(Markers(out), ExpectedMarkers(wf))
      /\ (pc = "returned" /\ err = Nil) => Markers(out) = ExpectedMarkers(wf)

(* a successful Run of two stages of one step each, one of them a sleep    *)
C12_Witness ==
    /\ mode = "Run" /\ pc = "returned" /\ err = Nil
    /\ Len(wf.stages) = 2
    /\ Len(wf.stages[1].steps) = 1
    /\ Len(wf.stages[2].steps) = 1
    /\ wf.stages[1].steps[1].type = StepTypeExec
    /\ wf.stages[2].steps[1].type = StepTypeSleep

(* ------------------------------ C13 ------------------------------------ *)
(* C13: on a workflow whose name is empty, Workflow.Validate returns the   *)
(* error "workflow name is required", whatever its stages are: none at     *)
(* all, or stages that are themselves invalid.                             *)
WorkflowValidated == vpc \in {"validated", "stage", "step"}

C13_EmptyNameRejectedFirst ==
    (WorkflowValidated /\ vwf.name = "") =>
      vres = ErrorsNew("workflow name is required")

(* a nameless workflow of two stages, the first unnamed, the second empty  *)
C13_Witness ==
    /\ vpc = "validated" /\ vwf.name = ""
    /\ Len(vwf.stages) = 2
    /\ vwf.stages[1].name = ""
    /\ Len(vwf.stages[2].steps) = 0
    /\ vres # Nil

(* ------------------------------ C14 ------------------------------------ *)
(* C14 as stated: Stage.Validate on a stage with zero steps returns the    *)
(* error "stage must have at least one step".                              *)
StageValidated == vpc \in {"stage", "step"}

C14_Original ==
    (StageValidated /\ Len(vst.stage.steps) = 0) =>
      vst.res = ErrorsNew("stage must have at least one step")

(* C14: Stage.Validate fails on every stage with zero steps: with the      *)
(* error "stage must have at least one step" when the stage has a name,    *)
(* with the error "stage name is required" when it has none (the name is   *)
(* checked first).                                                         *)
C14_EmptyStageRejected ==
    (StageValidated /\ Len(vst.stage.steps) = 0) =>
      vst.res = (IF vst.stage.name = ""
                 THEN ErrorsNew("stage name is required")
                 ELSE ErrorsNew("stage must have at least one step"))

(* Stage.Validate has returned on a named stage with zero steps, the       *)
(* second stage of a workflow                                              *)
C14_Witness ==
    /\ vpc = "stage" /\ vst.i = 2
    /\ vst.stage.name # "" /\ Len(vst.stage.steps) = 0
    /\ vst.res = ErrorsNew("stage must have at least one step")

(* ------------------------------ C15 ------------------------------------ *)
(* C15 as stated: Step.Validate on an exec step whose run is empty returns *)
(* the error "exec step requires 'run' command".                           *)
StepValidated == vpc = "step"

C15_Original ==
    (StepValidated /\ vsp.step.type = StepTypeExec /\ Len(vsp.step.run) = 0) =>
      vsp.res = ErrorsNew("exec step requires 'run' command")

(* C15: Step.Validate fails on every exec step whose run is empty: with    *)
(* the error "exec step requires 'run' command" when the step has a name,  *)
(* with the error "step name is required" when it has none.                *)
C15_ExecWithoutRunRejected ==
    (StepValidated /\ vsp.step.type = StepTypeExec /\ Len(vsp.step.run) = 0) =>
      vsp.res = (IF vsp.step.name = ""
                 THEN ErrorsNew("step name is required")
                 ELSE ErrorsNew("exec step requires 'run' command"))

C15_Witness ==
    /\ StepValidated
    /\ vsp.step.type = StepTypeExec /\ Len(vsp.step.run) = 0
    /\ vsp.step.name # ""
    /\ vsp.res = ErrorsNew("exec step requires 'run' command")

(* ------------------------------ C16 ------------------------------------ *)
(* C16: Step.Validate fails on every sleep step whose seconds is zero or   *)
(* negative, with the error "sleep step requires positive 'seconds' value" *)
(* when the step has a name; it accepts a sleep step only when its seconds *)
(* is strictly positive, and accepts every named one that is.              *)
C16_SleepNeedsPositiveSeconds ==
    (StepValidated /\ vsp.step.type = StepTypeSleep) =>
      /\ vsp.step.seconds <= 0 => vsp.res # Nil
      /\ (vsp.step.seconds <= 0 /\ vsp.step.name # "") =>
            vsp.res = ErrorsNew("sleep step requires positive 'seconds' value")
      /\ vsp.res = Nil <=> (vsp.step.seconds > 0 /\ vsp.step.name # "")

(* a named sleep step of negative seconds has been rejected *)
C16_Witness ==
    /\ StepValidated
    /\ vsp.step.type = StepTypeSleep
    /\ vsp.step.name # ""
    /\ vsp.step.seconds < 0
    /\ vsp.res # Nil

(* ------------------------------ C17 ------------------------------------ *)
(* C17 as stated: Step.Validate on a step whose type is neither exec nor   *)
(* sleep returns the error "unknown step type: <type>".                    *)
UnknownTypeError(s) == <<Layer("unknown step type: %s", -1, s.type, "")>>

C17_Original ==
    (StepValidated /\ ~KnownType(vsp.step.type)) =>
      vsp.res = UnknownTypeError(vsp.step)

(* C17: Step.Validate fails on every step whose type is not exactly exec   *)
(* or sleep, the empty type included, whatever its run and seconds: with   *)
(* the error "unknown step type: <type>" when the step has a name, with    *)
(* the error "step name is required" when it has none.                     *)
C17_UnknownTypeRejected ==
    (StepValidated /\ ~KnownType(vsp.step.type)) =>
      vsp.res = (IF vsp.step.name = ""
                 THEN ErrorsNew("step name is required")
                 ELSE UnknownTypeError(vsp.step))

(* a named step without a type, with a run and positive seconds, has been  *)
(* rejected for its type                                                   *)
C17_Witness ==
    /\ StepValidated
    /\ vsp.step.type = ""
    /\ vsp.step.name # ""
    /\ Len(vsp.step.run) > 0 /\ vsp.step.seconds > 0
    /\ vsp.res = UnknownTypeError(vsp.step)

(* ------------------------------ C18 ------------------------------------ *)
(* what it is for the error e of Workflow.Validate on w to name a stage    *)
(* of w by index and name in its outermost layer, and a step of that stage *)
(* by index and name in the next                                           *)
NamesStage(e, w) ==
    /\ Len(e) >= 2
    /\ e[1].fmt = "stage %d (%s): %w"
    /\ e[1].idx + 1 \in 1..Len(w.stages)
    /\ e[1].s1 = w.stages[e[1].idx + 1].name

NamesStep(e, st) ==
    /\ Len(e) >= 3
    /\ e[2].fmt = "step %d (%s): %w"
    /\ e[2].idx + 1 \in 1..Len(st.steps)
    /\ e[2].s1 = st.steps[e[2].idx + 1].name

(* C18 as stated: whenever Workflow.Validate fails, its error names the    *)
(* failing stage and the failing step, each by index and name, together    *)
(* with the violated rule.                                                 *)
C18_Original ==
    (WorkflowValidated /\ vres # Nil) =>
      /\ NamesStage(vres, vwf)
      /\ NamesStep(vres, vwf.stages[vres[1].idx + 1])
      /\ <<vres[3]>> \in StepRules(vwf.stages[vres[1].idx + 1].steps[vres[2].idx + 1])

(* C18: the error of Workflow.Validate carries the location of the element *)
(* whose rule is violated. A rule of the workflow (name, at least one      *)
(* stage) comes bare. A rule of a stage (name, at least one step) comes    *)
(* wrapped with the index and name of that stage and names no step. A rule *)
(* of a step comes wrapped with the index and name of the step, that       *)
(* wrapped with the index and name of its stage.                           *)
C18_ErrorCarriesLocationOfItsLevel ==
    (WorkflowValidated /\ vres # Nil) =>
      IF WorkflowRules(vwf) # {}
      THEN vres \in WorkflowRules(vwf)
      ELSE /\ NamesStage(vres, vwf)
           /\ LET st == vwf.stages[vres[1].idx + 1]
              IN  IF StageRules(st) # {}
                  THEN Len(vres) = 2 /\ <<vres[2]>> \in StageRules(st)
                  ELSE /\ Len(vres) = 3
                       /\ NamesStep(vres, st)
                       /\ <<vres[3]>> \in StepRules(st.steps[vres[2].idx + 1])

(* the rule of a step reported in the second stage *)
C18_Witness ==
    /\ vpc = "validated" /\ vres # Nil
    /\ Len(vres) = 3
    /\ vres[1].idx = 1 /\ vres[1].s1 = StageNames[2]
    /\ vres[2].idx = 0 /\ vres[2].s1 = "nowait"

(* ------------------------------ C19 ------------------------------------ *)
(* e is the error of element k, the first failing one, wrapped by the      *)
(* format fmt with the 0-based index and the name of the element           *)
WrapsFirstFailure(outer, fmt, k, name, inner) ==
    /\ inner # Nil => (outer # Nil /\ outer[1].fmt = fmt /\ outer[1].idx + 1 <= k)
    /\ outer = Nil => inner = Nil
    /\ (outer # Nil /\ k < outer[1].idx + 1) => inner = Nil
    /\ (outer # Nil /\ k = outer[1].idx + 1) =>
          (inner # Nil /\ outer = Wrap(Layer(fmt, k - 1, name, ""), inner))

(* C19: Stage.Validate and Step.Validate called on their own give what     *)
(* they give inside Workflow.Validate. On a workflow with a name (and      *)
(* stages), Workflow.Validate fails exactly when Stage.Validate fails on   *)
(* one of its stages, and its error is the error of Stage.Validate on the  *)
(* first such stage wrapped with that stage's index and name. On a stage   *)
(* with a name (and steps), Stage.Validate fails exactly when              *)
(* Step.Validate fails on one of its steps, and its error is the error of  *)
(* Step.Validate on the first such step wrapped with that step's index and *)
(* name.                                                                   *)
C19_ValidateComposes ==
    /\ (StageValidated /\ vwf.name # "") =>
          WrapsFirstFailure(vres, "stage %d (%s): %w", vst.i, vst.stage.name,
                            vst.res)
    /\ (StepValidated /\ vst.i > 0 /\ vst.stage.name # "") =>
          WrapsFirstFailure(vst.res, "step %d (%s): %w", vsp.j,
                            vsp.step.name, vsp.res)

(* Step.Validate has failed on the first step of the second stage, the     *)
(* first failing stage of a named workflow                                 *)
C19_Witness ==
    /\ vpc = "step" /\ vwf.name # ""
    /\ vst.i = 2 /\ vsp.j = 1
    /\ vsp.res # Nil
    /\ vst.res = Wrap(Layer("step %d (%s): %w", 0, vsp.step.name, ""), vsp.res)
    /\ vres = Wrap(Layer("stage %d (%s): %w", 1, vst.stage.name, ""), vst.res)

(* ------------------------------ C20 ------------------------------------ *)
(* C20: executeStep, which Run calls for each step, on a sleep step of     *)
(* positive seconds writes the sleep notice first and then invokes Sleep,  *)
(* exactly once, with a positive duration of exactly that many seconds:    *)
(* a whole multiple of Second whose quotient by Second is seconds.         *)
C20_SleepsExactlySeconds ==
    xpc = "done" =>
      /\ xres.err = Nil
      /\ xres.events = <<"out", "call">>
      /\ xres.out = <<Line("sleeping", FALSE, -1, -1, "", "", <<>>,
                           xstep.seconds)>>
      /\ Len(xres.calls) = 1
      /\ xres.calls[1].cap = "Sleep"
      /\ xres.calls[1].d > 0
      /\ xres.calls[1].d % Second = 0
      /\ xres.calls[1].d \div Second = xstep.seconds

(* ------------------------------ C21 ------------------------------------ *)
(* the lines of a trace that are none of the start, stage-start,           *)
(* stage-completed and completion markers                                   *)
IsStepLevelLine(l) ==
    l.kind \notin {"start", "stage", "stageCompleted", "completed"}

StepLevelLines(o) == SelectSeq(o, IsStepLevelLine)

IsDescription(l) == l.kind \in {"wouldExec", "wouldSleep"}

Descriptions(o) == SelectSeq(o, IsDescription)

DryRunReturned == mode = "DryRun" /\ pc = "returned" /\ err = Nil

(* C21 as stated: the number of step-level lines DryRun has written equals *)
(* the number of steps of the workflow.                                    *)
C21_Original ==
    DryRunReturned => Len(StepLevelLines(out)) = Len(Positions(wf))

(* C21: DryRun writes one step marker per step and, after the marker of a  *)
(* step of type exec or sleep, one line describing it: its step-level      *)
(* lines are the markers and the descriptions, two for each step of known  *)
(* type and one for each step of another type.                             *)
C21_DryRunMarkerAndDescriptionPerStep ==
    DryRunReturned =>
      /\ Len(StepMarkers(out)) = Len(Positions(wf))
      /\ Len(Descriptions(out)) = Len(KnownPositions(wf))
      /\ Len(StepLevelLines(out)) =
            Len(Positions(wf)) + Len(KnownPositions(wf))

(* a DryRun over a step of known type and a step of unknown type *)
C21_Witness ==
    /\ DryRunReturned
    /\ Len(Positions(wf)) = 2
    /\ Len(KnownPositions(wf)) = 1
    /\ Len(StepLevelLines(out)) = 3

(* ------------------------------ C22 ------------------------------------ *)
(* what a description line announces, and what an invocation is, in the    *)
(* same terms: the capability, its argv, its whole seconds                 *)
Announced(l) ==
    [cap |-> IF l.kind = "wouldExec" THEN "RunCmd" ELSE "Sleep",
     argv |-> l.run, secs |-> l.secs]

Invoked(c) == [cap |-> c.cap, argv |-> c.argv, secs |-> c.d \div Second]

AnnouncedBy(o) ==
    LET ds == Descriptions(o) IN [k \in 1..Len(ds) |-> Announced(ds[k])]

InvokedBy(cs) == [k \in 1..Len(cs) |-> Invoked(cs[k])]

(* C22: on a valid workflow the descriptions DryRun has written so far     *)
(* are, in order, the invocations Run makes for that workflow (RunCmd with *)
(* the argv of each exec step, Sleep with the seconds of each sleep step,  *)
(* in declaration order), and at return there is one for every step.       *)
C22_DryRunDescribesRunOrder ==
    (mode = "DryRun" /\ Loaded /\ WellFormed(wf)) =>
      /\ IsPrefix(AnnouncedBy(out), InvokedBy(ExpectedCalls(wf)))
      /\ pc = "returned" =>
            /\ AnnouncedBy(out) = InvokedBy(ExpectedCalls(wf))
            /\ Len(Descriptions(out)) = Len(Positions(wf))

(* a DryRun that follows a successful Run of an exec step and a sleep step *)
(* and has announced what that Run invoked                                 *)
C22_Witness ==
    /\ DryRunReturned /\ WellFormed(wf)
    /\ prev.mode = "Run" /\ prev.err = Nil
    /\ Len(prev.calls) = 2
    /\ prev.calls[1].cap = "RunCmd" /\ prev.calls[2].cap = "Sleep"
    /\ AnnouncedBy(out) = InvokedBy(prev.calls)

(* ------------------------------ C23 ------------------------------------ *)
(* C23: execution is strictly sequential. At most one capability           *)
(* invocation is in progress at any time, and only in a Run. A capability  *)
(* is invoked only when none is in progress, so not before the previous    *)
(* step's invocation has returned. While an invocation is in progress the  *)
(* engine writes no line and makes no progress: the only thing that        *)
(* happens is that the invocation returns, or ends in a panic.             *)
AtMostOneInProgress ==
    /\ Len(inflight) <= 1
    /\ inflight # <<>> => (mode = "Run" /\ pc = "invoking")

InvokesOnlyWhenIdle == Len(inflight') > Len(inflight) => inflight = <<>>

NoProgressWhileInProgress ==
    inflight # <<>> =>
      /\ inflight' = Tail(inflight)
      /\ \/ /\ Len(calls') = Len(calls) + 1
            /\ calls'[Len(calls')].cap = Head(inflight).cap
            /\ calls'[Len(calls')].argv = Head(inflight).argv
         \/ /\ pc' = "panicked"
            /\ calls' = calls
      /\ UNCHANGED <<out, stageIdx, mode, wf>>
      /\ stepIdx' \in {stepIdx, stepIdx + 1}

C23_StrictlySequential ==
    /\ []AtMostOneInProgress
    /\ [][InvokesOnlyWhenIdle /\ NoProgressWhileInProgress]_vars

(* the invocation of the second step is in progress, that of the first has *)
(* returned                                                                *)
C23_Witness ==
    /\ mode = "Run" /\ pc = "invoking"
    /\ Len(calls) = 1 /\ calls[1].cap = "RunCmd"
    /\ Len(inflight) = 1 /\ inflight[1].cap = "Sleep"

(* ------------------------------ C24 ------------------------------------ *)
(* C24: the workflow is read-only once loaded. From the return of the      *)
(* loader to the return of Run or DryRun, the workflow the call traverses  *)
(* is the one the loader returned (for the default loader, the one         *)
(* Validate accepted), and no step of a call changes it or the document it *)
(* was loaded from.                                                        *)
WorkflowAsLoaded == Loaded => wf = LoadWorkflow(loader, doc).wf

WorkflowFrame ==
    ncalls' = ncalls => /\ doc' = doc
                        /\ pc # "load" => wf' = wf

C24_WorkflowReadOnly == []WorkflowAsLoaded /\ [][WorkflowFrame]_vars

(* a Run that invoked two capabilities, after a DryRun of the same         *)
(* document, has returned and the workflow is still the loaded one         *)
C24_Witness ==
    /\ mode = "Run" /\ pc = "returned" /\ Len(calls) = 2
    /\ prev.mode = "DryRun" /\ prev.err = Nil /\ prev.doc = doc
    /\ doc.readable /\ wf = doc.wf
    /\ Len(Positions(wf)) = 2

(* ------------------------------ C25 ------------------------------------ *)
(* C25: every invocation of RunCmd made by a Run, returned or in progress, *)
(* is given an argv of at least one element, and no Run ends in the panic  *)
(* of runCommand indexing an empty argv.                                   *)
NonEmptyArgv(c) == c.cap = "RunCmd" => Len(c.argv) >= 1

C25_RunCmdGivenNonEmptyArgv ==
    mode = "Run" =>
      /\ \A k \in 1..Len(calls) : NonEmptyArgv(calls[k])
      /\ \A k \in 1..Len(inflight) : NonEmptyArgv(inflight[k])
      /\ pc # "panicked"

(* ------------------------------ C27 ------------------------------------ *)
(* C27: a Run whose loader returned a workflow with zero stages returns    *)
(* success, has invoked no capability, and has written exactly the start   *)
(* marker followed by the completion marker.                               *)
C27_EmptyWorkflowRunsToCompletion ==
    (mode = "Run" /\ pc = "returned" /\ LoadErr = Nil
       /\ Len(LoadWorkflow(loader, doc).wf.stages) = 0) =>
      /\ err = Nil
      /\ calls = <<>>
      /\ Len(out) = 2
      /\ out[1].kind = "start" /\ out[1].name = Path /\ ~out[1].dry
      /\ out[2].kind = "completed" /\ ~out[2].dry

(* a Run on a loader that returned a workflow without stages has returned  *)
C27_Witness ==
    /\ mode = "Run" /\ pc = "returned"
    /\ loader = "mock" /\ doc.readable /\ Len(doc.wf.stages) = 0
    /\ Len(wf.stages) = 0 /\ Len(loads) = 1
    /\ Len(out) = 2 /\ err = Nil

(* ------------------------------ C30 ------------------------------------ *)
(* C30: each call of Run or DryRun invokes LoadWorkflow exactly once, with *)
(* the path given to NewRunner, after the start marker and before any      *)
(* stage marker or capability invocation. The Runner keeps no workflow      *)
(* between calls: what a call traverses, or the error it returns, is what  *)
(* the loader returns for the document as it is during that call.          *)
LoadedOnceAfterStart ==
    /\ pc = "load" => (loads = <<>> /\ Len(out) = 1 /\ calls = <<>>
                         /\ inflight = <<>> /\ out[1].kind = "start")
    /\ (mode # "none" /\ pc # "load") => loads = <<LoadCall(Path, 1, 0)>>

DependsOnThisLoad ==
    (mode # "none" /\ pc # "load") =>
      IF LoadErr = Nil
      THEN wf = LoadWorkflow(loader, doc).wf
      ELSE pc = "returned" /\ err = LoadErr /\ calls = <<>> /\ Len(out) = 1

C30_LoadsOncePerCall == LoadedOnceAfterStart /\ DependsOnThisLoad

(* the second call on a Runner whose first call ran a capability: the      *)
(* document was removed in between, and the second call has loaded again   *)
(* and returned the loader's error                                         *)
C30_Witness ==
    /\ ncalls = 2 /\ pc = "returned"
    /\ prev.err = Nil /\ Len(prev.calls) >= 1
    /\ prev.doc.readable /\ ~doc.readable
    /\ Len(loads) = 1 /\ loads[1].path = Path
    /\ err = LoadErr /\ err # Nil /\ calls = <<>>

(* ------------------------------ C26 ------------------------------------ *)
(* C26: NewRunner returns an error and no Runner whenever, with every      *)
(* option applied (for each collaborator the last option that sets it, or  *)
(* the default if none does), one of LoadWorkflow, RunCmd, Sleep, Out is   *)
(* nil; otherwise it returns no error and a Runner on the given path whose *)
(* four collaborators are the configured ones, none of them nil.           *)
SettersOf(opts, f) == {k \in 1..Len(opts) : opts[k].field = f}

Configured(opts, f) ==
    LET ks == SettersOf(opts, f)
    IN  IF ks = {} THEN Runner(Path)[f]
        ELSE opts[CHOOSE k \in ks : \A j \in ks : j <= k].value

C26_NewRunnerRejectsNilCollaborator ==
    npc = "returned" =>
      IF \E f \in Collaborators : Configured(nopts, f) = NilValue
      THEN nret.r = NilRunner /\ nret.err # Nil
      ELSE /\ nret.err = Nil
           /\ nret.r # NilRunner
           /\ nret.r[1].path = Path
           /\ \A f \in Collaborators :
                nret.r[1][f] = Configured(nopts, f) /\ nret.r[1][f] # NilValue

(* NewRunner given a substitute and then a nil writer has returned an      *)
(* error and no Runner                                                     *)
C26_Witness ==
    /\ npc = "returned"
    /\ nopts = <<WithOut("substitute"), WithOut(NilValue)>>
    /\ nret.r = NilRunner /\ nret.err = NotConfigured

(* ------------------------------ C28 ------------------------------------ *)
(* C28: both commands classify their failures in the same fixed order. An  *)
(* empty path gives workflowEmptyPathErr and a path at which nothing       *)
(* exists gives workflowNotFoundErr, with the factory never called; a      *)
(* failing factory gives runnerCreationErr, with Run/DryRun never called;  *)
(* any error of Run/DryRun gives workflowExecutionErr; otherwise the       *)
(* command succeeds. In the first three cases the error depends on the     *)
(* path and the factory alone, not on the command.                         *)
EntryPointOf(cmd) == IF cmd = "run" THEN "Run" ELSE "DryRun"

Classified ==
    IF cin.path = ""
    THEN [err |-> workflowEmptyPathErr, trace |-> <<>>]
    ELSE IF cin.stat = "notExist"
    THEN [err |-> workflowNotFoundErr, trace |-> <<>>]
    ELSE IF cin.factory # Nil
    THEN [err |-> runnerCreationErr, trace |-> <<"newRunner">>]
    ELSE IF cin.exec # Nil
    THEN [err |-> workflowExecutionErr,
          trace |-> <<"newRunner", EntryPointOf(cin.cmd)>>]
    ELSE [err |-> Nil, trace |-> <<"newRunner", EntryPointOf(cin.cmd)>>]

C28_CommandsClassifyFailures ==
    /\ cpc = "returned" => (cret = Classified.err /\ ctrace = Classified.trace)
    /\ cpc \notin {"idle", "returned"} =>
         (cret = Nil /\ IsPrefix(ctrace, Classified.trace))

(* dry-run on an existing file with a failing factory has returned         *)
(* runnerCreationErr without calling DryRun                                *)
C28_Witness ==
    /\ cpc = "returned" /\ cin.cmd = "dry-run"
    /\ cin.path = Path /\ cin.stat = "exists"
    /\ cin.factory # Nil /\ cin.exec # Nil
    /\ cret = runnerCreationErr /\ ctrace = <<"newRunner">>

(* ------------------------------ C29 ------------------------------------ *)
(* C29: when a step fails during Run, the error the run command returns    *)
(* names the failing stage and the failing step: it carries the layer Run  *)
(* wrapped the step's error with.                                          *)
IsStepFailure(e) == e # Nil /\ e[1].fmt = "stage '%s', step '%s': %w"

CarriesLayer(e, layer) == \E k \in 1..Len(e) : e[k] = layer

C29_CommandErrorNamesStageAndStep ==
    (cpc = "returned" /\ cin.cmd = "run" /\ ctrace = <<"newRunner", "Run">>
       /\ IsStepFailure(cin.exec)) =>
      CarriesLayer(cret, cin.exec[1])

(* ------------------------------ C31 ------------------------------------ *)
(* C31 as stated: whenever a file with the target name exists,             *)
(* runWriteTemplate returns errFileExists and leaves the file unchanged.   *)
LastInit == ilog[Len(ilog)]

C31_Original ==
    (ilog # <<>> /\ LastInit.before[TargetOf(LastInit.fileName)] # Absent) =>
      /\ LastInit.ret = errFileExists
      /\ files = LastInit.before

(* C31: runWriteTemplate never changes an existing file, nor any file other *)
(* than its target (the given name, or workflow.yaml for the empty name).  *)
(* When os.Stat succeeds on the target it returns errFileExists; when the  *)
(* target exists but cannot be examined it returns errWriteFailed. It      *)
(* returns nil only after creating the target with the template, any other *)
(* failure being errWriteFailed; so a second init of a name whose first    *)
(* init succeeded returns errFileExists.                                   *)
InitKeepsExistingFiles ==
    ilog # <<>> =>
      LET name == TargetOf(LastInit.fileName)
          before == LastInit.before
      IN  /\ \A f \in FileNames : (f # name \/ before[f] # Absent) =>
                                      files[f] = before[f]
          /\ Stat(before, dir, name) = Nil =>
               LastInit.ret = errFileExists
          /\ (before[name] # Absent /\ Stat(before, dir, name) # Nil) =>
               LastInit.ret = errWriteFailed
          /\ LastInit.ret \in {Nil, errFileExists, errWriteFailed}
          /\ LastInit.ret = Nil =>
               (before[name] = Absent /\ files[name] = Template)
          /\ LastInit.ret = errFileExists => before[name] # Absent
          /\ LastInit.ret = errWriteFailed => files = before

SecondInitFails ==
    (Len(ilog) >= 2
       /\ TargetOf(ilog[Len(ilog) - 1].fileName) = TargetOf(LastInit.fileName)
       /\ ilog[Len(ilog) - 1].ret = Nil) =>
      LastInit.ret = errFileExists

C31_InitNeverOverwrites == InitKeepsExistingFiles /\ SecondInitFails

(* init without a name succeeded, then init of workflow.yaml failed with   *)
(* errFileExists and left the template in place                            *)
C31_Witness ==
    /\ Len(ilog) = 2
    /\ ilog[1].fileName = "" /\ ilog[1].ret = Nil
    /\ ilog[1].before[defaultFileName] = Absent
    /\ ilog[2].fileName = defaultFileName /\ ilog[2].ret = errFileExists
    /\ files[defaultFileName] = Template

(* ------------------------------ C32 ------------------------------------ *)
(* C32: a Run that has returned on a loaded workflow whose steps are all   *)
(* of type exec or sleep failed iff one of its RunCmd invocations returned *)
(* an error. The failing invocation is then the last one, every earlier    *)
(* invocation having succeeded, and the error is the one of the exec step  *)
(* that owns it. A Sleep invocation never makes Run return: after it, the  *)
(* next step is marked, or the workflow is finished and Run succeeded.     *)
SomeCommandFailed == \E k \in 1..Len(calls) : calls[k].res # Nil

FailedAtFirstFailingExec ==
    LET k == Len(calls)
        owner == Positions(wf)[k]
    IN  /\ calls[k].cap = "RunCmd" /\ calls[k].res # Nil
        /\ \A n \in 1..(k - 1) : calls[n].res = Nil
        /\ owner.step.type = StepTypeExec /\ owner.step.run = calls[k].argv
        /\ err = StepFailure(owner.stage, owner.step, calls[k].res)

SleepNeverFails ==
    \A k \in 1..Len(calls) :
        calls[k].cap = "Sleep" =>
          /\ calls[k].res = Nil
          /\ IF k = Len(Positions(wf))
             THEN pc = "returned" => err = Nil
             ELSE pc = "returned" => Len(StepMarkers(out)) >= k + 1

C32_RunFailsIffCommandFails ==
    (mode = "Run" /\ Loaded /\ ~HasUnknown(wf)) =>
      /\ SleepNeverFails
      /\ pc = "returned" =>
           /\ err # Nil <=> SomeCommandFailed
           /\ err # Nil => FailedAtFirstFailingExec

(* a Run has slept, gone on to the exec step after the sleep step, and     *)
(* returned the error of that step's command                               *)
C32_Witness ==
    /\ mode = "Run" /\ pc = "returned" /\ Loaded /\ ~HasUnknown(wf)
    /\ Len(calls) = 2
    /\ calls[1].cap = "Sleep" /\ calls[2].cap = "RunCmd"
    /\ calls[2].res # Nil /\ err # Nil

(* ------------------------------ C33 ------------------------------------ *)
(* C33: when a Run has failed at stage i, step j (1-based: the stage and   *)
(* the step its error names), its markers are the start marker, the        *)
(* stage-start, step and stage-completed markers of stages 1..i-1, the     *)
(* stage-start marker of stage i and the step markers of its steps 1..j,   *)
(* and nothing else: no stage-completed marker of stage i, nothing of a    *)
(* later step or stage. The marker of a step is written before its         *)
(* capability is invoked: while an invocation is in progress the last line *)
(* but for a sleep notice is the marker of the invoked step.               *)
StepMarkersUpTo(stage, i, j) ==
    [n \in 1..j |->
       Line("step", FALSE, i, n, stage.steps[n].name, stage.steps[n].type,
            <<>>, 0)]

MarkersOfFailureAt(w, i, j) ==
    ((<<Line("start", FALSE, -1, -1, Path, "", <<>>, 0)>>
      \o StageBlocks(SubSeq(w.stages, 1, i - 1), 1))
     \o <<Line("stage", FALSE, i, -1, w.stages[i].name, "", <<>>, 0)>>)
    \o StepMarkersUpTo(w.stages[i], i, j)

RunFailedAtStep == mode = "Run" /\ pc = "returned" /\ Loaded /\ err # Nil

FailedAt(i, j) ==
    /\ i \in 1..Len(wf.stages)
    /\ j \in 1..Len(wf.stages[i].steps)
    /\ err[1] = Layer("stage '%s', step '%s': %w", -1, wf.stages[i].name,
                      wf.stages[i].steps[j].name)

MarkerBeforeInvocation ==
    (mode = "Run" /\ pc = "invoking") =>
      LET m == Markers(out)
          last == m[Len(m)]
          step == wf.stages[last.i].steps[last.j]
      IN  /\ last.kind = "step"
          /\ last.i = stageIdx + 1 /\ last.j = stepIdx + 1
          /\ Head(inflight).cap = (IF step.type = StepTypeExec THEN "RunCmd"
                                   ELSE "Sleep")
          /\ Head(inflight).argv = step.run

C33_FailureLeavesPrefixOfMarkers ==
    /\ MarkerBeforeInvocation
    /\ RunFailedAtStep =>
         /\ FailedAt(stageIdx + 1, stepIdx + 1)
         /\ Markers(out) = MarkersOfFailureAt(wf, stageIdx + 1, stepIdx + 1)

(* a Run has failed at stage 2, step 1, after a first stage of one step    *)
C33_Witness ==
    /\ RunFailedAtStep
    /\ FailedAt(2, 1)
    /\ Len(wf.stages[1].steps) = 1
    /\ Len(Markers(out)) = 6
    /\ Len(calls) = 2 /\ calls[2].res # Nil

(* ------------------------------ C34 ------------------------------------ *)
(* C34: the error of a Run that failed on a command is the error value     *)
(* RunCmd returned, wrapped in exactly two layers: outermost "stage        *)
(* '<stage>', step '<step>': ", then "command execution failed: ", then    *)
(* the cause unchanged, so that errors.Is(result, cause) holds for the     *)
(* cause and for everything the cause itself wraps.                        *)
RunFailedOnCommand ==
    /\ mode = "Run" /\ pc = "returned"
    /\ calls # <<>> /\ calls[Len(calls)].res # Nil

C34_CommandErrorKeepsCauseChain ==
    RunFailedOnCommand =>
      LET cause == calls[Len(calls)].res
      IN  /\ Len(err) = Len(cause) + 2
          /\ err[1] = Layer("stage '%s', step '%s': %w", -1,
                            wf.stages[stageIdx + 1].name,
                            wf.stages[stageIdx + 1].steps[stepIdx + 1].name)
          /\ err[2] = Layer("command execution failed: %w", -1, "", "")
          /\ SubSeq(err, 3, Len(err)) = cause
          /\ ErrorsIs(err, cause)
          /\ \A k \in 1..Len(cause) :
               ErrorsIs(err, SubSeq(cause, k, Len(cause)))

(* a Run has failed on a command whose error itself wraps another          *)
C34_Witness ==
    /\ RunFailedOnCommand
    /\ Len(calls[Len(calls)].res) = 2
    /\ Len(err) = 4
    /\ ErrorsIs(err, ErrorsNew("executable file not found in $PATH"))

(* ------------------------------ C35 ------------------------------------ *)
(* C35: the validator counts stages and steps from 0, the markers of Run   *)
(* and DryRun count them from 1. When Validate locates a violation at      *)
(* "stage a (...): step b (...)", the step meant is step b+1 of stage a+1  *)
(* in declaration order, and the markers Run and DryRun write for that     *)
(* stage and that step carry the numbers a+1 and a+1.b+1.                  *)
LocatesStep(e) ==
    /\ Len(e) >= 3
    /\ e[1].fmt = "stage %d (%s): %w"
    /\ e[2].fmt = "step %d (%s): %w"

IsStageMarker(l) == l.kind = "stage"

StageMarkers(o) == SelectSeq(o, IsStageMarker)

(* the number of steps declared before step j of stage i, plus one *)
Ordinal(w, i, j) ==
    CHOOSE n \in 1..Len(Positions(w)) :
        Positions(w)[n].i = i /\ Positions(w)[n].j = j

C35_MarkerIndexIsValidationIndexPlusOne ==
    (mode \in {"Run", "DryRun"} /\ Loaded /\ LocatesStep(Validate(wf))) =>
      LET e == Validate(wf)
          a == e[1].idx
          b == e[2].idx
          stageMs == StageMarkers(out)
          stepMs == StepMarkers(out)
      IN  /\ a + 1 \in 1..Len(wf.stages)
          /\ b + 1 \in 1..Len(wf.stages[a + 1].steps)
          /\ wf.stages[a + 1].name = e[1].s1
          /\ wf.stages[a + 1].steps[b + 1].name = e[2].s1
          /\ StepValidate(wf.stages[a + 1].steps[b + 1]) = SubSeq(e, 3, Len(e))
          /\ Len(stageMs) >= a + 1 =>
               (stageMs[a + 1].i = a + 1 /\ stageMs[a + 1].name = e[1].s1)
          /\ LET n == Ordinal(wf, a + 1, b + 1)
             IN  Len(stepMs) >= n =>
                   /\ stepMs[n].i = a + 1
                   /\ stepMs[n].j = b + 1
                   /\ stepMs[n].name = e[2].s1

(* Validate locates the unknown type at "stage 1, step 0"; a DryRun has    *)
(* written the markers of that stage and step as stage 2 and step 2.1      *)
C35_Witness ==
    /\ mode = "DryRun" /\ pc = "returned" /\ Loaded
    /\ LocatesStep(Validate(wf))
    /\ Validate(wf)[1].idx = 1 /\ Validate(wf)[2].idx = 0
    /\ Len(StepMarkers(out)) = 2
    /\ StepMarkers(out)[2].i = 2 /\ StepMarkers(out)[2].j = 1
    /\ StageMarkers(out)[2].i = 2

(* ------------------------------ C36 ------------------------------------ *)
(* C36: NewRunner applies its options in the order given, on top of the    *)
(* defaults. With the first n options applied, a collaborator no option    *)
(* among them sets has its default and any other has the value of the last *)
(* of them that sets it; applying an option changes its own collaborator   *)
(* and nothing else of the Runner; and the Runner returned is the one with *)
(* all options applied.                                                    *)
Applied == SubSeq(nopts, 1, nidx)

OptionsAppliedInOrder ==
    npc \in {"options", "returned"} =>
      /\ nr # NilRunner
      /\ nr[1].path = Path
      /\ \A f \in Collaborators :
           /\ SettersOf(Applied, f) = {} => nr[1][f] = Runner(Path)[f]
           /\ nr[1][f] = Configured(Applied, f)
      /\ (npc = "returned" /\ nret.err = Nil) => (nidx = Len(nopts) /\ nret.r = nr)

OptionSetsOnlyItsOwn ==
    nidx' = nidx + 1 =>
      LET opt == nopts[nidx']
      IN  /\ nr'[1][opt.field] = opt.value
          /\ \A f \in Collaborators \ {opt.field} : nr'[1][f] = nr[1][f]
          /\ nr'[1].path = nr[1].path

C36_OptionsApplyInOrder ==
    []OptionsAppliedInOrder /\ [][OptionSetsOnlyItsOwn]_vars

(* a nil RunCmd overridden by a later WithRunCmd: NewRunner has returned a *)
(* Runner with the later RunCmd and the other collaborators at default     *)
C36_Witness ==
    /\ npc = "returned"
    /\ nopts = <<WithRunCmd(NilValue), WithRunCmd("substitute")>>
    /\ nret.err = Nil
    /\ nret.r[1].RunCmd = "substitute"
    /\ nret.r[1].Sleep = "time.Sleep" /\ nret.r[1].Out = "os.Stdout"

(* ------------------------------ C37 ------------------------------------ *)
(* C37: Run and DryRun terminate. Provided the loader and every capability *)
(* invocation return, a call that has been entered eventually returns,     *)
(* completed (no error, completion marker last) or failed (an error, no    *)
(* completion marker); the one invocation that does not return, the        *)
(* default runCommand on an empty argv, ends the call in a panic instead.   *)
(* On the way each step is visited at most once: the k-th step marker is   *)
(* the marker of the k-th step in declaration order, and the k-th          *)
(* invocation belongs to a step marked before it.                          *)
InCall == mode # "none" /\ pc \notin {"idle", "returned", "panicked"}

TerminalOutcome ==
    /\ pc = "returned"
    /\ IF err = Nil THEN out[Len(out)].kind = "completed"
       ELSE ~HasCompletion(out)

VisitsEachStepAtMostOnce ==
    (mode # "none" /\ pc # "load" /\ err # LoadErr) =>
      LET m == StepMarkers(out)
          P == Positions(wf)
      IN  /\ Len(m) <= Len(P)
          /\ \A k \in 1..Len(m) : m[k].i = P[k].i /\ m[k].j = P[k].j
          /\ Len(calls) + Len(inflight) <= Len(m)

TwoCallsOf(m) ==
    /\ pc = "returned" /\ mode = m /\ prev.mode = m
    /\ prev.doc = doc

SameResults ==
    \A k \in 1..Len(calls) :
        k <= Len(prev.calls) => calls[k].res = prev.calls[k].res

C38_ExecutionIsDeterministic ==
    /\ (TwoCallsOf("Run") /\ SameResults) =>
         (calls = prev.calls /\ out = prev.out /\ err = prev.err)
    /\ TwoCallsOf("DryRun") =>
         (out = prev.out /\ err = prev.err /\ calls = <<>> /\ prev.calls = <<>>)

(* two Runs of the same two steps, the second command failing both times  *)
C38_Witness ==
    /\ TwoCallsOf("Run") /\ SameResults
    /\ Len(calls) = 2 /\ Len(prev.calls) = 2
    /\ calls[2].res # Nil
    /\ Len(out) >= 4

====
